---- MODULE Spec2Model ----
\* Whale-trade alert bot (valshi-x): trade valuation, whale detection,
\* de-duplicating ingestion in polling mode (bot.py, trade_monitor.py) and in
\* streaming mode (bot_websocket.py, websocket_client.py), and the streaming
\* client's connect / listen / close state machine.
EXTENDS Integers, Sequences, FiniteSets, TLC

VARIABLES
    mode,             \* which program runs: "trade" (pure valuation), "poll", "stream"
    threshold,        \* Config.WHALE_THRESHOLD_DOLLARS / TradeMonitor.threshold_dollars
    wire,             \* trade mode: the wire record under test
    built,            \* trade mode: the Trade built from it and its is_whale verdict
    fmt,              \* format mode: the call under test and its arguments
    out,              \* format mode: what the call returned
    seen_trade_ids,   \* the tracked ids held by the seen set
    seen_fill,        \* how many further (never re-delivered) ids the seen set holds
    market_cache,     \* ticker -> market details
    detections,       \* history: id -> number of whale detections
    publishes,        \* history: id -> number of post_tweet calls
    last_post,        \* history: the latest publish attempt and how it ended
    evicted,          \* history: ids dropped from the seen set by a compaction
    dropped,          \* history: whale ids whose market-details fetch failed
    skipped,          \* history: ids delivered while held by the seen set
    feed_left,        \* how many further tracked entries the fetches may list
    fill_left,        \* how many further fresh ids the feed may still deliver
    anon_left,        \* how many further records without a trade_id, of each kind
    ppc,              \* polling loop position
    whale_trades,     \* polling loop: result of find_new_whale_trades still to post
    last_fetch,       \* polling loop: ids returned by the latest trades fetch
    last_result,      \* polling loop: ids in the latest find_new_whale_trades result
    cycle_count,      \* polling loop: cycle counter
    fetch_status,     \* history: how the latest trades request ended
    running,          \* KalshiWebSocketClient.running
    websocket,        \* KalshiWebSocketClient.websocket ("None" or "conn")
    reconnect_delay,  \* KalshiWebSocketClient.reconnect_delay
    lpc,              \* listen() position (the await it is suspended at)
    cpc,              \* close() position
    conn_open,        \* the underlying connection last opened is open
    subscribed,       \* the subscribe command reached that connection
    connect_result,   \* last value returned by connect()
    fails,            \* history: consecutive failed connect() calls
    loss,             \* history: how the connection now missing was lost
    tasks,            \* callback tasks created and not yet started
    cb,               \* the callback being run by the event loop
    frames_left,      \* how many further trade frames the feed may deliver
    boot,             \* __init__ position: config, login, xtest, ready, exited
    creds,            \* the credentials the environment provides
    boot_log,         \* history: the start-up steps run, each with its result
    exit_code,        \* the process's exit status once it has ended
    notice,           \* the last notice printed by __init__ or run()
    fault             \* history: the exception delivered to the running bot

tradeVars == <<wire, built, fmt, out>>
pipeVars  == <<seen_trade_ids, seen_fill, market_cache, detections, publishes,
               last_post, evicted, dropped, skipped, fill_left>>
pollVars  == <<ppc, whale_trades, last_fetch, last_result, cycle_count,
               feed_left, fetch_status>>
connVars  == <<running, websocket, reconnect_delay, lpc, cpc, conn_open,
               subscribed, connect_result, fails, loss>>
cbVars    == <<tasks, cb, frames_left>>
sysVars   == <<boot, creds, boot_log, exit_code, notice, fault>>
vars      == <<mode, threshold, anon_left, sysVars, tradeVars, pipeVars, pollVars,
               connVars, cbVars>>

----------------------------------------------------------------------------
\* Bounds of the model.

\* largest contract count enumerated below the two scenario counts
MaxCount == 2
\* longest sequence of tracked trades in one fetched batch
MaxBatch == 2
\* fresh, never re-delivered trades the feed may deliver in total
MaxFill == 2
\* poll cycles run
MaxCycles == 2
\* get_market_details calls made on one cache
MaxLookups == 4
\* tracked trade entries the trades fetches may list in total
MaxFeed == 2
\* the same, in the runs of a long polling session
MaxLongFeed == 3
\* consecutive connect failures the network may produce
MaxFails == 7
\* callback tasks that may be pending at once
MaxTasks == 2
\* trade frames the stream may deliver in total
MaxFrames == 2
\* the same, in the runs of a long streaming session
MaxLongFrames == 3
\* records without a trade_id the feed may deliver in the runs about them,
\* of each kind (whale, small)
MaxAnon == 1
\* trade frames the stream may deliver in the runs checked for progress
MaxLiveFrames == 1
\* longest market title formatted
MaxTitleLen == 500
\* longest ticker of the formatting sweep
MaxTickerLen == 50
\* a ticker far longer than any listed one
LongTicker == 200
\* longest text handed to post_tweet
MaxTextLen == 300
\* size of the seen set at start when the session is already long-running
NearFull == 9999

----------------------------------------------------------------------------
\* Python values: None and dictionaries.  A dictionary is a function from its
\* keys; every value is held as an option, <<>> for None and <<v>> for v.

None == <<>>

Some(v) == <<v>>

\* dict.get(k, default)
DictGet(d, k, default) == IF k \in DOMAIN d THEN d[k] ELSE default

Min(a, b) == IF a <= b THEN a ELSE b

----------------------------------------------------------------------------
\* Trade (trade_monitor.py)

\* value_cents / 100 as dollars and hundredths
Dollars(cents) == [whole |-> cents \div 100, frac |-> cents % 100]

\* the price Trade.__init__ multiplies the count by
SidePrice_mut_swapped(side, yes_price, no_price) ==
    IF side = Some("yes") THEN no_price ELSE yes_price

SidePrice(side, yes_price, no_price) ==
    IF side = Some("yes") THEN yes_price ELSE no_price

\* Trade.__init__: the Trade object, or the TypeError raised by None * x
Trade(data) ==
    LET trade_id     == DictGet(data, "trade_id", Some(""))
        ticker       == DictGet(data, "ticker", Some(""))
        side         == DictGet(data, "side", Some(""))
        count        == DictGet(data, "count", Some(0))
        yes_price    == DictGet(data, "yes_price", Some(0))
        no_price     == DictGet(data, "no_price", Some(0))
        created_time == DictGet(data, "created_time", Some(""))
        price        == SidePrice(side, yes_price, no_price)
    IN  IF count = None \/ price = None
        THEN [ok |-> FALSE, error |-> "TypeError"]
        ELSE [ok |-> TRUE,
              trade_id |-> trade_id, ticker |-> ticker, side |-> side,
              count |-> count, yes_price |-> yes_price, no_price |-> no_price,
              created_time |-> created_time,
              value_cents |-> count[1] * price[1],
              value_dollars |-> Dollars(count[1] * price[1])]

\* Trade.is_whale: value_dollars >= threshold_dollars, the threshold an integer
is_whale_mut_strict(trade, threshold_dollars) ==
    \/ trade.value_dollars.whole > threshold_dollars
    \/ /\ trade.value_dollars.whole = threshold_dollars
       /\ trade.value_dollars.frac > 0

is_whale(trade, threshold_dollars) ==
    trade.value_dollars.whole >= threshold_dollars

----------------------------------------------------------------------------
\* Wire shapes.

\* a REST trades-list entry (all fields present)
RestRecord(id, ticker, side, count, yes_price, no_price) ==
    [trade_id |-> Some(id), ticker |-> Some(ticker), side |-> Some(side),
     count |-> Some(count), yes_price |-> Some(yes_price),
     no_price |-> Some(no_price), created_time |-> Some("2024-12-01T00:00:00Z")]

\* a streaming frame of type trade (all fields present)
StreamFrame(id, ticker, side, count, yes_price, no_price) ==
    [type |-> Some("trade"),
     msg  |-> Some([trade_id |-> Some(id), market_ticker |-> Some(ticker),
                    taker_side |-> Some(side), count |-> Some(count),
                    yes_price |-> Some(yes_price), no_price |-> Some(no_price),
                    ts |-> Some(1733011200)])]

\* _timestamp_to_iso: local-time ISO text of the epoch seconds, "Z" appended
_timestamp_to_iso(ts) == Some([local_iso_of |-> ts[1], suffix |-> "Z"])

\* handle_message, the normalisation of a trade frame's payload
NormalizeTrade_mut_byticker(trade_data) ==
    [trade_id     |-> DictGet(trade_data, "trade_id",
                              DictGet(trade_data, "market_ticker", None)),
     ticker       |-> DictGet(trade_data, "market_ticker", None),
     taker_side   |-> DictGet(trade_data, "taker_side", None),
     count        |-> DictGet(trade_data, "count", None),
     yes_price    |-> DictGet(trade_data, "yes_price", None),
     no_price     |-> DictGet(trade_data, "no_price", None),
     created_time |-> _timestamp_to_iso(DictGet(trade_data, "ts", Some(0)))]

NormalizeTrade(trade_data) ==
    [trade_id     |-> DictGet(trade_data, "trade_id", None),
     ticker       |-> DictGet(trade_data, "market_ticker", None),
     taker_side   |-> DictGet(trade_data, "taker_side", None),
     count        |-> DictGet(trade_data, "count", None),
     yes_price    |-> DictGet(trade_data, "yes_price", None),
     no_price     |-> DictGet(trade_data, "no_price", None),
     created_time |-> _timestamp_to_iso(DictGet(trade_data, "ts", Some(0)))]

----------------------------------------------------------------------------
\* Start-up (config.py, bot.py and bot_websocket.py __init__)

\* the credentials Config.validate requires, in the order it tests them
Credentials ==
    <<"KALSHI_API_KEY_ID", "KALSHI_PRIVATE_KEY", "X_API_KEY", "X_API_SECRET",
      "X_ACCESS_TOKEN", "X_ACCESS_TOKEN_SECRET">>

CredentialSet == {Credentials[i] : i \in DOMAIN Credentials}

\* Config.validate: (True, None), or False with the first missing name
RECURSIVE validate_mut_skiplast(_, _)
validate_mut_skiplast(present, i) ==
    IF i >= Len(Credentials) THEN [is_valid |-> TRUE, error |-> None]
    ELSE IF Credentials[i] \notin present
    THEN [is_valid |-> FALSE, error |-> Some(Credentials[i])]
    ELSE validate_mut_skiplast(present, i + 1)

RECURSIVE validate(_, _)
validate(present, i) ==
    IF i > Len(Credentials) THEN [is_valid |-> TRUE, error |-> None]
    ELSE IF Credentials[i] \notin present
    THEN [is_valid |-> FALSE, error |-> Some(Credentials[i])]
    ELSE validate(present, i + 1)

NoFault == [exc |-> "none", at |-> "none"]

\* exceptions that do not derive from Exception
BaseOnly == {"KeyboardInterrupt", "CancelledError", "SystemExit"}

\* whether "except <clause>:" handles the exception exc
Catches_mut_broad(clause, exc) ==
    IF clause = "Exception" THEN TRUE ELSE exc = clause

Catches(clause, exc) ==
    IF clause = "Exception" THEN exc \notin BaseOnly ELSE exc = clause

\* the bot before "bot = ValshiX()"
InitSys ==
    /\ boot = "config"
    /\ creds \in SUBSET CredentialSet
    /\ boot_log = << >>
    /\ exit_code = None
    /\ notice = "none"
    /\ fault = NoFault

\* no bot: a function is called on its own
InitSysNone ==
    /\ boot = "none"
    /\ creds = CredentialSet
    /\ boot_log = << >>
    /\ exit_code = None
    /\ notice = "none"
    /\ fault = NoFault

----------------------------------------------------------------------------
\* Trade mode: the valuation and the whale test applied to one wire record.

Counts == (0 .. MaxCount) \cup {99, 100, 2000, 150000}

Prices == {0, 1, 25, 75, 99, 100}

Thresholds == {1, 1500, 100000}

WHALE_THRESHOLD_DOLLARS == 100000

Idle == [pc |-> "idle"]

\* The feed of the engine modes: three exchange trades on two markets.
Ids == {"t1", "t2", "t3"}

Keys == {Some(i) : i \in Ids}

\* what a record without a trade_id is known by: '' on the REST path
\* (Trade.__init__'s default), None on the streaming path (handle_message
\* stores the absent value under the key, so handle_trade's default is unused)
AnonKeys == {Some(""), None}

\* the records without a trade_id the feed can hold: a whale and a small trade
AnonItems == {"anon_whale", "anon_small"}

\* t1: yes side, $112,500 at the yes price, $37,500 at the no price
\* t2: no side,  $112,500 at the no price
\* t3: yes side, $1,500
FeedRest(id) ==
    CASE id = "t1" -> RestRecord("t1", "MKT-A", "yes", 150000, 75, 25)
      [] id = "t2" -> RestRecord("t2", "MKT-B", "no", 150000, 25, 75)
      [] id = "t3" -> RestRecord("t3", "MKT-A", "yes", 2000, 75, 25)

FeedFrame(id) ==
    CASE id = "t1" -> StreamFrame("t1", "MKT-A", "yes", 150000, 75, 25)
      [] id = "t2" -> StreamFrame("t2", "MKT-B", "no", 150000, 25, 75)
      [] id = "t3" -> StreamFrame("t3", "MKT-A", "yes", 2000, 75, 25)

\* the market object the exchange returns for a ticker
MarketOf(ticker) == [ticker |-> ticker, title |-> Some("Market title")]

\* f with the count of key k raised by one
Bump(f, k) == IF k \in DOMAIN f THEN [f EXCEPT ![k] = @ + 1] ELSE f

InitPipe ==
    /\ seen_trade_ids = {}
    /\ seen_fill \in {0, NearFull}
    /\ market_cache = << >>
    /\ detections = [k \in Keys \cup AnonKeys |-> 0]
    /\ publishes = [k \in Keys \cup AnonKeys |-> 0]
    /\ last_post = [id |-> None, outcome |-> "none"]
    /\ evicted = {}
    /\ dropped = {}
    /\ skipped = {}
    /\ fill_left = MaxFill

InitPollVars ==
    /\ ppc = "off"
    /\ whale_trades = << >>
    /\ last_fetch = {}
    /\ last_result = {}
    /\ cycle_count = 0
    /\ feed_left = MaxFeed
    /\ anon_left = [a \in AnonItems |-> 0]
    /\ fetch_status = "none"

InitConnVars ==
    /\ running = FALSE
    /\ websocket = "None"
    /\ reconnect_delay = 1
    /\ lpc = "off"
    /\ cpc = "off"
    /\ conn_open = FALSE
    /\ subscribed = FALSE
    /\ connect_result = "none"
    /\ fails = 0
    /\ loss = "none"
    /\ tasks = << >>
    /\ cb = Idle
    /\ frames_left = 0

\* the keys a wire record may come without (REST names)
OptionalKeys == {"ticker", "side", "count", "yes_price", "no_price"}

\* the name a key of the REST record has in a streaming frame
StreamKey(k) ==
    IF k = "ticker" THEN "market_ticker"
    ELSE IF k = "side" THEN "taker_side"
    ELSE k

\* the dictionary d without the keys in absent
Without(d, absent) == [k \in DOMAIN d \ absent |-> d[k]]

\* a feed entry on the wire, REST: the entry of a tracked id, or t2's (whale)
\* or t3's (small) without its trade_id
WireRest(item) ==
    IF item \in Ids THEN FeedRest(item)
    ELSE IF item = "anon_whale" THEN Without(FeedRest("t2"), {"trade_id"})
    ELSE Without(FeedRest("t3"), {"trade_id"})

\* the same as a streaming frame
WireFrame(item) ==
    LET f == FeedFrame(IF item \in Ids THEN item
                       ELSE IF item = "anon_whale" THEN "t2" ELSE "t3")
    IN  IF item \in Ids THEN f
        ELSE [f EXCEPT !.msg = Some(Without(f.msg[1], {"trade_id"}))]

InitTrade ==
    /\ mode = "trade"
    /\ InitSysNone
    /\ threshold \in Thresholds
    /\ \E absent \in SUBSET OptionalKeys :
       \E side \in IF "side" \in absent THEN {""} ELSE {"yes", "no"},
          count \in IF "count" \in absent THEN {0} ELSE Counts,
          yp \in IF "yes_price" \in absent THEN {0} ELSE Prices,
          np \in IF "no_price" \in absent THEN {0} ELSE Prices :
          wire = [path |-> "input", side |-> side, count |-> count,
                  yes_price |-> yp, no_price |-> np, absent |-> absent]
    /\ built = [path |-> "none"]
    /\ fmt = [op |-> "none"]
    /\ out = [op |-> "none"]
    /\ InitPipe /\ seen_fill = 0
    /\ InitPollVars
    /\ InitConnVars

\* fetch_recent_trades builds Trade(trade_data) from each REST entry
BuildRest ==
    /\ mode = "trade"
    /\ built.path = "none"
    /\ LET t == Trade(Without(RestRecord("t", "MKT", wire.side, wire.count,
                                         wire.yes_price, wire.no_price),
                              wire.absent))
       IN  built' = [path |-> "rest", trade |-> t,
                     whale |-> t.ok /\ is_whale(t, threshold)]
    /\ UNCHANGED <<mode, threshold, anon_left, sysVars, wire, fmt, out, pipeVars, pollVars,
                   connVars, cbVars>>

\* handle_message normalises the frame, handle_trade builds Trade(trade_data)
BuildStream ==
    /\ mode = "trade"
    /\ built.path = "none"
    /\ LET f == StreamFrame("t", "MKT", wire.side, wire.count,
                            wire.yes_price, wire.no_price)
           msg == Without(DictGet(f, "msg", Some(<< >>))[1],
                          {StreamKey(k) : k \in wire.absent})
           t == Trade(NormalizeTrade(msg))
       IN  built' = [path |-> "stream", trade |-> t,
                     whale |-> t.ok /\ is_whale(t, threshold)]
    /\ UNCHANGED <<mode, threshold, anon_left, sysVars, wire, fmt, out, pipeVars, pollVars,
                   connVars, cbVars>>

NextTrade == BuildRest \/ BuildStream

SpecTrade == InitTrade /\ [][NextTrade]_vars

\* C3: a trade built from a REST record is valued at count times the price of
\* its side, value_dollars is that many cents over 100, and it is not negative.
C3_RestValuation ==
    (mode = "trade" /\ built.path = "rest") =>
        /\ built.trade.ok
        /\ wire.side = "yes" =>
               built.trade.value_cents = wire.count * wire.yes_price
        /\ wire.side = "no" =>
               built.trade.value_cents = wire.count * wire.no_price
        /\ built.trade.value_dollars.whole * 100 + built.trade.value_dollars.frac
               = built.trade.value_cents
        /\ built.trade.value_dollars.frac \in 0 .. 99
        /\ built.trade.value_cents >= 0
        /\ built.trade.value_dollars.whole >= 0

C3_Witness ==
    /\ mode = "trade" /\ built.path = "rest"
    /\ wire.side = "no" /\ wire.count = 150000
    /\ wire.yes_price = 25 /\ wire.no_price = 75
    /\ built.trade.value_cents = 11250000
    /\ built.trade.value_dollars = [whole |-> 112500, frac |-> 0]

\* C4: a trade built from a streaming frame has the frame's taker_side as its
\* side and is valued at the price of that side.
C4_StreamSide ==
    (mode = "trade" /\ built.path = "stream") =>
        /\ built.trade.ok
        /\ built.trade.side = Some(wire.side)
        /\ wire.side = "yes" =>
               built.trade.value_cents = wire.count * wire.yes_price
        /\ wire.side = "no" =>
               built.trade.value_cents = wire.count * wire.no_price

\* C5: is_whale holds exactly when count * price of the side is at least
\* threshold * 100 cents; $1,500 is no whale at $100,000 and $112,500 is.
C5_WhaleThreshold ==
    (mode = "trade" /\ built.path # "none" /\ built.trade.ok) =>
        /\ built.whale <=> (built.trade.value_cents >= threshold * 100)
        /\ built.path = "rest" =>
            /\ wire.side = "yes" =>
                  (built.whale <=> wire.count * wire.yes_price >= threshold * 100)
            /\ wire.side = "no" =>
                  (built.whale <=> wire.count * wire.no_price >= threshold * 100)
            /\ (/\ wire.side = "yes" /\ wire.yes_price = 75
                 /\ threshold = 100000 /\ wire.count = 2000) => ~built.whale
            /\ (/\ wire.side = "yes" /\ wire.yes_price = 75
                 /\ threshold = 100000 /\ wire.count = 150000) => built.whale

\* a trade whose notional equals the threshold
C5_Witness ==
    /\ mode = "trade" /\ built.path = "rest"
    /\ wire.side = "yes" /\ wire.count = 2000 /\ wire.yes_price = 75
    /\ threshold = 1500
    /\ built.trade.value_cents = 150000
    /\ built.whale

----------------------------------------------------------------------------
\* Tweet texts (tweet_formatter.py, x_client.py).  Short texts are strings;
\* a text that holds a title or a ticker is known by its length.  The two
\* emoji and the cent sign are one character each.

\* n as three digits
Pad3(n) ==
    IF n < 10 THEN "00" \o ToString(n)
    ELSE IF n < 100 THEN "0" \o ToString(n)
    ELSE ToString(n)

\* f"{n:,}"
RECURSIVE Commas(_)
Commas(n) ==
    IF n < 1000 THEN ToString(n)
    ELSE Commas(n \div 1000) \o "," \o Pad3(n % 1000)

\* str.upper() of the side values of the feed
Upper(side) ==
    IF side = "yes" THEN "YES" ELSE IF side = "no" THEN "NO" ELSE side

\* round(n / d) as Python's float formatting does it when n / d is a float
\* without rounding error at the tie: to nearest, ties to the even neighbour
RoundHalfEven(n, d) ==
    LET q == n \div d
        r == n % d
    IN  IF 2 * r < d THEN q
        ELSE IF 2 * r > d THEN q + 1
        ELSE IF q % 2 = 0 THEN q ELSE q + 1

\* f"{amount / 1_000_000:.1f}" in tenths of a million.  A tie x.y5 is a
\* float only for x.25 and x.75; any other tie is formatted from the
\* nearest float, which lies above it (tie_up) or below it.
MillionTenths(cents, tie_up) ==
    LET q == cents \div 10000000
        r == cents % 10000000
    IN  IF r # 5000000 THEN RoundHalfEven(cents, 10000000)
        ELSE IF q % 5 = 2 THEN RoundHalfEven(cents, 10000000)
        ELSE IF tie_up THEN q + 1 ELSE q

\* format_currency of the amount cents / 100
format_currency_mut_halfup(cents, tie_up) ==
    IF cents >= 100000000
    THEN LET t == (cents + 5000000) \div 10000000
         IN  "$" \o ToString(t \div 10) \o "." \o ToString(t % 10) \o "M"
    ELSE IF cents >= 100000
    THEN "$" \o ToString((cents + 50000) \div 100000) \o "K"
    ELSE "$" \o ToString((cents + 50) \div 100)

format_currency(cents, tie_up) ==
    IF cents >= 100000000
    THEN LET t == MillionTenths(cents, tie_up)
         IN  "$" \o ToString(t \div 10) \o "." \o ToString(t % 10) \o "M"
    ELSE IF cents >= 100000
    THEN "$" \o ToString(RoundHalfEven(cents, 100000)) \o "K"
    ELSE "$" \o ToString(RoundHalfEven(cents, 100))

\* len(get_market_url(ticker))
get_market_url(ticker_len) == Len("https://kalshi.com/?search=") + ticker_len

\* the length of "\n".join(parts)
RECURSIVE JoinLen(_)
JoinLen(parts) ==
    IF parts = << >> THEN 0
    ELSE IF Len(parts) = 1 THEN parts[1]
    ELSE parts[1] + 1 + JoinLen(Tail(parts))

\* title[:max_title_len] + "..." put in the title's place
Truncate_mut_noellipsis(tweet_len, title_len) ==
    title_len - (tweet_len - 280)

Truncate(tweet_len, title_len) ==
    title_len - (tweet_len - 280) - 3

\* format_whale_tweet: which rendering is returned and how long it is
format_whale_tweet(trade, title_len, tie_up) ==
    LET ticker_len == trade.ticker[1]
        side       == Upper(trade.side[1])
        value      == format_currency(trade.value_cents, tie_up)
        contracts  == Commas(trade.count[1])
        price_cents == IF trade.side = Some("yes") THEN trade.yes_price[1]
                       ELSE trade.no_price[1]
        price_pct  == ToString(RoundHalfEven(price_cents, 100))
        tweet == JoinLen(<<Len("W Whale Alert!"),
                           0,
                           Len(value \o " trade on ") + title_len,
                           0,
                           Len("C " \o contracts \o " " \o side
                                 \o " contracts @ " \o ToString(price_cents)
                                 \o "c (" \o price_pct \o "%)"),
                           0,
                           Len("@Kalshi @KalshiEco"),
                           0,
                           get_market_url(ticker_len)>>)
        compact == JoinLen(<<Len("W " \o value \o " whale trade"),
                             Len(contracts \o " " \o side \o " contracts @ "
                                   \o ToString(price_cents) \o "c"),
                             Len("@Kalshi @KalshiEco"),
                             get_market_url(ticker_len)>>)
        max_title_len == Truncate(tweet, title_len)
    IN  IF tweet <= 280 THEN [kind |-> "full", len |-> tweet]
        ELSE IF max_title_len > 20
        THEN [kind |-> "truncated",
              len |-> tweet - title_len + max_title_len + 3]
        ELSE [kind |-> "compact", len |-> compact]

\* post_tweet: the length of the text handed to client.create_tweet
post_tweet_mut_keep(text_len) ==
    IF text_len > 280 THEN 280 + 3 ELSE text_len

post_tweet(text_len) ==
    IF text_len > 280 THEN 277 + Len("...") ELSE text_len

\* amounts in cents handed to format_currency
Amounts ==
    {0, 50, 150, 250, 99949, 99950, 100000, 150000, 250000, 12500000,
     99999900, 99999999, 100000000, 105000000, 125000000, 135000000,
     175000000, 2000000000}

\* the trades formatted, of narrow, usual and wide value and count fields;
\* the ticker is known by its length
FormatTrades(ticker_len) ==
    {Trade(RestRecord("f1", ticker_len, "no", 1, 99, 1)),
     Trade(RestRecord("f2", ticker_len, "yes", 150000, 75, 25)),
     Trade(RestRecord("f3", ticker_len, "yes", 1234567, 100, 0))}

FormatInputs ==
    {[op |-> "format_whale_tweet", trade |-> t, title_len |-> n,
      tie_up |-> FALSE] :
        t \in UNION {FormatTrades(k) :
                        k \in (0 .. MaxTickerLen) \cup {LongTicker}},
        n \in 0 .. MaxTitleLen}
    \cup {[op |-> "post_tweet", text_len |-> n] : n \in 0 .. MaxTextLen}
    \cup {[op |-> "format_currency", cents |-> c, tie_up |-> b] :
              c \in Amounts, b \in BOOLEAN}

InitFormat ==
    /\ mode = "format"
    /\ InitSysNone
    /\ threshold = WHALE_THRESHOLD_DOLLARS
    /\ wire = [path |-> "none"]
    /\ built = [path |-> "none"]
    /\ fmt \in FormatInputs
    /\ out = [op |-> "none"]
    /\ InitPipe /\ seen_fill = 0
    /\ InitPollVars
    /\ InitConnVars

FormatTweet ==
    /\ mode = "format"
    /\ fmt.op = "format_whale_tweet" /\ out.op = "none"
    /\ out' = [op |-> fmt.op,
               tweet |-> format_whale_tweet(fmt.trade, fmt.title_len,
                                            fmt.tie_up)]
    /\ UNCHANGED <<mode, threshold, anon_left, sysVars, wire, built, fmt, pipeVars, pollVars,
                   connVars, cbVars>>

PostTweet ==
    /\ mode = "format"
    /\ fmt.op = "post_tweet" /\ out.op = "none"
    /\ out' = [op |-> fmt.op, sent_len |-> post_tweet(fmt.text_len)]
    /\ UNCHANGED <<mode, threshold, anon_left, sysVars, wire, built, fmt, pipeVars, pollVars,
                   connVars, cbVars>>

FormatCurrency ==
    /\ mode = "format"
    /\ fmt.op = "format_currency" /\ out.op = "none"
    /\ out' = [op |-> fmt.op, text |-> format_currency(fmt.cents, fmt.tie_up)]
    /\ UNCHANGED <<mode, threshold, anon_left, sysVars, wire, built, fmt, pipeVars, pollVars,
                   connVars, cbVars>>

NextFormat == FormatTweet \/ PostTweet \/ FormatCurrency

SpecFormat == InitFormat /\ [][NextFormat]_vars

\* C14: the text format_whale_tweet returns is at most 280 characters long
\* for every title of 0 to 500 characters and every ticker of up to 50
\* characters, whichever rendering it is.
C14_TweetLength ==
    (/\ mode = "format" /\ out.op = "format_whale_tweet"
     /\ fmt.title_len <= MaxTitleLen
     /\ fmt.trade.ticker[1] <= MaxTickerLen)
        => (/\ out.tweet.len <= 280
            /\ out.tweet.kind \in {"full", "truncated", "compact"})

\* the longest title with the longest ticker, cut to fit
C14_Witness ==
    /\ mode = "format" /\ out.op = "format_whale_tweet"
    /\ fmt.title_len = 500 /\ fmt.trade.ticker = Some(50)
    /\ out.tweet.kind = "truncated"
    /\ out.tweet.len = 280

\* C15: post_tweet hands on at most 280 characters, and a text of at most
\* 280 characters as it is.
C15_PostLength ==
    (mode = "format" /\ out.op = "post_tweet")
        => (/\ out.sent_len <= 280
            /\ fmt.text_len <= 280 => out.sent_len = fmt.text_len)

\* a text longer than 280 characters was cut
C15_Witness ==
    /\ mode = "format" /\ out.op = "post_tweet"
    /\ fmt.text_len = 281
    /\ out.sent_len = 280

----------------------------------------------------------------------------
\* Market cache and seen set (trade_monitor.py, bot_websocket.py)

\* "self.market_cache[ticker] = market"
CacheStore_mut_lose(cache, ticker, market) == cache

CacheStore(cache, ticker, market) ==
    [k \in DOMAIN cache \cup {ticker} |->
        IF k = ticker THEN market ELSE cache[k]]

\* get_market_details: resp is what kalshi_client.get_market returns if
\* called; requested tells whether it was called
get_market_details_mut_placeholder(cache, ticker, resp) ==
    [cache |-> cache,
     market |-> IF ticker \in DOMAIN cache THEN Some(cache[ticker])
                ELSE Some(MarketOf(ticker)),
     requested |-> ticker \notin DOMAIN cache]

get_market_details(cache, ticker, resp) ==
    LET cache2 == IF ticker \notin DOMAIN cache /\ resp # None
                  THEN CacheStore(cache, ticker, resp[1])
                  ELSE cache
    IN  [cache |-> cache2,
         market |-> IF ticker \in DOMAIN cache2 THEN Some(cache2[ticker])
                    ELSE None,
         requested |-> ticker \notin DOMAIN cache]

\* the tickers get_market_details is asked about
Tickers == {Some("MKT-A"), Some("MKT-B")}

\* what get_market can return for a ticker: None, or the market as the
\* exchange describes it at that moment
MarketResponses(ticker) ==
    {None, Some(MarketOf(ticker)),
     Some([ticker |-> ticker, title |-> Some("Renamed title")])}

\* a monitor just constructed, its market cache empty
InitCache ==
    /\ mode = "cache"
    /\ InitSysNone
    /\ threshold = WHALE_THRESHOLD_DOLLARS
    /\ wire = [path |-> "none"]
    /\ built = [path |-> "none"]
    /\ fmt = [op |-> "get_market_details", n |-> 0]
    /\ out = [op |-> "none"]
    /\ InitPipe /\ seen_fill = 0
    /\ InitPollVars
    /\ InitConnVars

\* one get_market_details call
GetMarketDetails ==
    /\ mode = "cache"
    /\ fmt.n < MaxLookups
    /\ \E ticker \in Tickers :
       \E resp \in MarketResponses(ticker) :
          LET md == get_market_details(market_cache, ticker, resp)
          IN  /\ market_cache' = md.cache
              /\ fmt' = [op |-> "get_market_details", n |-> fmt.n + 1,
                         ticker |-> ticker, resp |-> resp]
              /\ out' = [op |-> "get_market_details", market |-> md.market,
                         requested |-> md.requested]
    /\ UNCHANGED <<mode, threshold, anon_left, sysVars, wire, built, seen_trade_ids,
                   seen_fill, detections, publishes, last_post, evicted,
                   dropped, skipped, fill_left, pollVars, connVars, cbVars>>

NextCache == GetMarketDetails

SpecCache == InitCache /\ [][NextCache]_vars

PollSeenMax == 10000

PollSeenKeep == 5000

\* set(list(seen)[-5000:]): the seen sets a compaction can leave.  The order
\* of a set's elements is arbitrary, so any 5000 of them may survive.
Compacted_mut_keepall(seen, fill, keep) == {[ids |-> seen, fill |-> fill]}

Compacted(seen, fill, keep) ==
    {[ids |-> k, fill |-> keep - Cardinality(k)] :
        k \in {k \in SUBSET seen : /\ Cardinality(k) <= keep
                                   /\ keep - Cardinality(k) <= fill}}

\* "if len(seen) > max: seen = set(list(seen)[-keep:])" applied to the seen
\* set made of the tracked ids and fill further ids
Compact(ids, fill, max, keep) ==
    IF Cardinality(ids) + fill > max
    THEN \E c \in Compacted(ids, fill, keep) :
            /\ seen_trade_ids' = c.ids
            /\ seen_fill' = c.fill
            /\ evicted' = evicted \cup (ids \ c.ids)
    ELSE /\ seen_trade_ids' = ids
         /\ seen_fill' = fill
         /\ evicted' = evicted

\* what session.request can do for a trades request: answer 200 with the
\* list, answer another status with an error body, or raise
TradesResponses(list) ==
    {[raised |-> FALSE, status_code |-> 200, json |-> [trades |-> list]],
     [raised |-> FALSE, status_code |-> 429, json |-> [error |-> "rate"]],
     [raised |-> FALSE, status_code |-> 500, json |-> [error |-> "server"]],
     [raised |-> TRUE, status_code |-> 0, json |-> [error |-> "transport"]]}

\* _make_request: the JSON body of a 200 answer, None for any other status
\* and for an exception of the transport
_make_request(response) ==
    IF response.raised THEN None
    ELSE IF response.status_code = 200 THEN Some(response.json)
    ELSE None

\* get_trades: "result.get('trades', []) if result else None"
get_trades(response) ==
    LET result == _make_request(response)
    IN  IF result # None THEN Some(DictGet(result[1], "trades", << >>))
        ELSE None

\* fetch_recent_trades: the Trade objects of the entries that parse
fetch_recent_trades_mut_stale(trades_data) ==
    IF trades_data = None THEN <<Trade(FeedRest("t1"))>>
    ELSE LET all == [i \in 1 .. Len(trades_data[1]) |-> Trade(trades_data[1][i])]
         IN  SelectSeq(all, LAMBDA t : t.ok)

fetch_recent_trades(trades_data) ==
    IF trades_data = None THEN << >>
    ELSE LET all == [i \in 1 .. Len(trades_data[1]) |-> Trade(trades_data[1][i])]
         IN  SelectSeq(all, LAMBDA t : t.ok)

\* "self.seen_trade_ids.add(trade.trade_id)"
MarkSeen_mut_forget(seen, trade_id) == seen

MarkSeen(seen, trade_id) == seen \cup {trade_id}

\* find_new_whale_trades, the loop over the fetched trades from position i;
\* acc holds the seen set, the cache, new_whales, the ids detected as whales,
\* those whose market request failed and those skipped as already seen
RECURSIVE ScanTrades_mut_nocheck(_, _, _, _, _)
ScanTrades_mut_nocheck(trades, mresp, thr, i, acc) ==
    IF i > Len(trades) THEN acc
    ELSE LET trade == trades[i]
             seen2 == MarkSeen(acc.seen, trade.trade_id)
         IN  IF ~is_whale(trade, thr)
             THEN ScanTrades_mut_nocheck(trades, mresp, thr, i + 1,
                                         [acc EXCEPT !.seen = seen2])
             ELSE LET md == get_market_details(acc.cache, trade.ticker, mresp[i])
                  IN  ScanTrades_mut_nocheck(trades, mresp, thr, i + 1,
                         [seen |-> seen2, cache |-> md.cache,
                          new_whales |-> IF md.market # None
                                         THEN Append(acc.new_whales,
                                                     <<trade, md.market[1]>>)
                                         ELSE acc.new_whales,
                          detected |-> Append(acc.detected, trade.trade_id),
                          failed |-> IF /\ trade.ticker \notin DOMAIN acc.cache
                                        /\ mresp[i] = None
                                     THEN acc.failed \cup {trade.trade_id}
                                     ELSE acc.failed,
                          skipped |-> acc.skipped])

RECURSIVE ScanTrades(_, _, _, _, _)
ScanTrades(trades, mresp, thr, i, acc) ==
    IF i > Len(trades) THEN acc
    ELSE LET trade == trades[i]
             seen2 == MarkSeen(acc.seen, trade.trade_id)
         IN  IF trade.trade_id \in acc.seen
             THEN ScanTrades(trades, mresp, thr, i + 1,
                             [acc EXCEPT !.skipped = @ \cup {trade.trade_id}])
             ELSE IF ~is_whale(trade, thr)
             THEN ScanTrades(trades, mresp, thr, i + 1,
                             [acc EXCEPT !.seen = seen2])
             ELSE LET md == get_market_details(acc.cache, trade.ticker, mresp[i])
                  IN  ScanTrades(trades, mresp, thr, i + 1,
                         [seen |-> seen2, cache |-> md.cache,
                          new_whales |-> IF md.market # None
                                         THEN Append(acc.new_whales,
                                                     <<trade, md.market[1]>>)
                                         ELSE acc.new_whales,
                          detected |-> Append(acc.detected, trade.trade_id),
                          failed |-> IF /\ trade.ticker \notin DOMAIN acc.cache
                                        /\ mresp[i] = None
                                     THEN acc.failed \cup {trade.trade_id}
                                     ELSE acc.failed,
                          skipped |-> acc.skipped])

\* how often x occurs in the sequence s
RECURSIVE Occurrences(_, _)
Occurrences(s, x) ==
    IF s = << >> THEN 0
    ELSE (IF Head(s) = x THEN 1 ELSE 0) + Occurrences(Tail(s), x)

\* the batches of tracked trades a trades fetch can return
Batches == UNION {[1 .. n -> Ids] : n \in 0 .. MaxBatch}

\* how many entries of a batch are the record a without a trade_id
AnonCount(batch, a) == Cardinality({i \in 1 .. Len(batch) : batch[i] = a})

\* the batches when anon[a] entries may still be the record a
FeedBatches(anon) ==
    IF \A a \in AnonItems : anon[a] = 0 THEN Batches
    ELSE {b \in UNION {[1 .. n -> Ids \cup AnonItems] : n \in 0 .. MaxBatch} :
             \A a \in AnonItems : AnonCount(b, a) <= anon[a]}

\* the answers get_market can give for the trade at each position of a
\* batch; it is only asked about whale trades
MarketAnswers(trades) ==
    {ans \in [1 .. Len(trades) -> {"ok", "fail"}] :
        \A i \in 1 .. Len(trades) :
            ans[i] = "fail" => is_whale(trades[i], threshold)}

MarketResp(trades, ans) ==
    [i \in 1 .. Len(trades) |->
        IF ans[i] = "ok" THEN Some(MarketOf(trades[i].ticker)) ELSE None]

\* find_new_whale_trades up to its compaction, on the seen set, the cache,
\* the fetched batch and the answers get_market gives
find_new_whale_trades(seen, cache, trades, ans, thr) ==
    ScanTrades(trades, MarketResp(trades, ans), thr, 1,
               [seen |-> seen, cache |-> cache, new_whales |-> << >>,
                detected |-> << >>, failed |-> {}, skipped |-> {}])

\* the caches a call can start from: any of the two markets already held
ScanCaches ==
    {[k \in D |-> [ticker |-> k, title |-> Some("Cached title")]] :
        D \in SUBSET {Some("MKT-A"), Some("MKT-B")}}

ScanInputs(thr) ==
    UNION {{[op |-> "find_new_whale_trades", seen |-> S, cache |-> c,
             trades |-> fetch_recent_trades(
                            Some([i \in 1 .. Len(b) |-> FeedRest(b[i])])),
             ans |-> a] :
               S \in SUBSET Keys, c \in ScanCaches,
               a \in {x \in [1 .. Len(b) -> {"ok", "fail"}] :
                         \A i \in 1 .. Len(b) :
                            x[i] = "fail" =>
                               is_whale(Trade(FeedRest(b[i])), thr)}} :
           b \in Batches}

InitScan ==
    /\ mode = "scan"
    /\ InitSysNone
    /\ threshold \in Thresholds
    /\ wire = [path |-> "none"]
    /\ built = [path |-> "none"]
    /\ fmt \in ScanInputs(threshold)
    /\ out = [op |-> "none"]
    /\ InitPipe /\ seen_fill = 0
    /\ InitPollVars
    /\ InitConnVars

FindNewWhaleTrades ==
    /\ mode = "scan"
    /\ fmt.op = "find_new_whale_trades" /\ out.op = "none"
    /\ LET r == find_new_whale_trades(fmt.seen, fmt.cache, fmt.trades,
                                      fmt.ans, threshold)
       IN  out' = [op |-> fmt.op, new_whales |-> r.new_whales,
                   seen |-> r.seen, cache |-> r.cache]
    /\ UNCHANGED <<mode, threshold, anon_left, sysVars, wire, built, fmt, pipeVars, pollVars,
                   connVars, cbVars>>

NextScan == FindNewWhaleTrades

SpecScan == InitScan /\ [][NextScan]_vars

----------------------------------------------------------------------------
\* Start-up steps, the same in bot.py and bot_websocket.py

\* __init__: Config.load_from_env(), Config.validate(), sys.exit(1) if invalid
BootValidate ==
    /\ mode \in {"poll", "stream"}
    /\ boot = "config"
    /\ LET v == validate(creds, 1)
       IN  /\ boot_log' = Append(boot_log, [step |-> "validate", ok |-> v.is_valid])
           /\ IF v.is_valid
              THEN /\ boot' = "login"
                   /\ UNCHANGED <<exit_code, notice>>
              ELSE /\ boot' = "exited"
                   /\ exit_code' = Some(1)
                   /\ notice' = "Configuration error"
    /\ UNCHANGED <<mode, threshold, anon_left, creds, fault, tradeVars, pipeVars, pollVars,
                   connVars, cbVars>>

\* __init__: KalshiClient(...) loads the private key (an unreadable key
\* raises before any request), then login() requests the exchange status
BootLogin ==
    /\ mode \in {"poll", "stream"}
    /\ boot = "login"
    /\ \E result \in {"ok", "refused", "bad_key"} :
          /\ boot_log' = Append(boot_log,
                                [step |-> IF result = "bad_key" THEN "load_key"
                                          ELSE "login",
                                 ok |-> result = "ok"])
          /\ IF result = "ok"
             THEN /\ boot' = "xtest"
                  /\ UNCHANGED <<exit_code, notice>>
             ELSE /\ boot' = "exited"
                  /\ exit_code' = Some(1)
                  /\ notice' = IF result = "refused"
                               THEN "Failed to authenticate with Kalshi API"
                               ELSE "Traceback"
    /\ UNCHANGED <<mode, threshold, anon_left, creds, fault, tradeVars, pipeVars, pollVars,
                   connVars, cbVars>>

\* __init__: XClient(...), test_connection(), then the rest of __init__
BootXTest ==
    /\ mode \in {"poll", "stream"}
    /\ boot = "xtest"
    /\ \E connected \in BOOLEAN :
          /\ boot_log' = Append(boot_log, [step |-> "xtest", ok |-> connected])
          /\ IF connected
             THEN /\ boot' = "ready"
                  /\ notice' = "Bot initialized successfully"
                  /\ UNCHANGED exit_code
             ELSE /\ boot' = "exited"
                  /\ exit_code' = Some(1)
                  /\ notice' = "Failed to connect to X API"
    /\ UNCHANGED <<mode, threshold, anon_left, creds, fault, tradeVars, pipeVars, pollVars,
                   connVars, cbVars>>

BootStep == BootValidate \/ BootLogin \/ BootXTest

----------------------------------------------------------------------------
\* Polling mode (bot.py)

InitPollFed(feed, anon) ==
    /\ mode = "poll"
    /\ InitSys
    /\ threshold = WHALE_THRESHOLD_DOLLARS
    /\ wire = [path |-> "none"]
    /\ built = [path |-> "none"]
    /\ fmt = [op |-> "none"]
    /\ out = [op |-> "none"]
    /\ InitPipe
    /\ ppc = "off"
    /\ whale_trades = << >>
    /\ last_fetch = {}
    /\ last_result = {}
    /\ cycle_count = 0
    /\ feed_left = feed
    /\ anon_left = [a \in AnonItems |-> anon]
    /\ fetch_status = "none"
    /\ InitConnVars

InitPollWith(feed) == InitPollFed(feed, 0)

InitPoll == InitPollWith(MaxFeed)

\* main(): bot.run() enters the monitoring loop
PollRun ==
    /\ mode = "poll"
    /\ boot = "ready"
    /\ ppc = "off"
    /\ ppc' = "cycle"
    /\ UNCHANGED <<mode, threshold, anon_left, sysVars, tradeVars, pipeVars, whale_trades,
                   last_fetch, last_result, cycle_count, feed_left, fetch_status,
                   connVars, cbVars>>

\* run(): one find_new_whale_trades call, with what the trades fetch returns
\* (batch of tracked trades plus nfill fresh small trades, or a failure)
PollCycle ==
    /\ mode = "poll"
    /\ ppc = "cycle"
    /\ cycle_count < MaxCycles
    /\ \E batch \in {b \in FeedBatches(anon_left) : Len(b) <= feed_left},
          nfill \in 0 .. fill_left :
       \E response \in TradesResponses([i \in 1 .. Len(batch) |->
                                           WireRest(batch[i])]) :
          /\ response.status_code = 200 \/ (batch = << >> /\ nfill = 0)
          /\ fetch_status' = IF response.raised THEN "exception"
                             ELSE IF response.status_code = 200 THEN "ok"
                             ELSE "http_error"
          /\ LET trades_data == get_trades(response)
                 trades == fetch_recent_trades(trades_data)
             IN  \E ans \in MarketAnswers(trades) :
                   LET r == ScanTrades(trades, MarketResp(trades, ans),
                                       threshold, 1,
                                       [seen |-> seen_trade_ids,
                                        cache |-> market_cache,
                                        new_whales |-> << >>,
                                        detected |-> << >>,
                                        failed |-> {}, skipped |-> {}])
                       fill2 == seen_fill + nfill
                   IN  /\ Compact(r.seen, fill2, PollSeenMax, PollSeenKeep)
                       /\ market_cache' = r.cache
                       /\ detections' =
                             [k \in DOMAIN detections |->
                                 detections[k] + Occurrences(r.detected, k)]
                       /\ dropped' = dropped \cup r.failed
                       /\ skipped' = skipped \cup r.skipped
                       /\ whale_trades' = r.new_whales
                       /\ last_fetch' = {trades[i].trade_id :
                                            i \in 1 .. Len(trades)}
                       /\ last_result' = {r.new_whales[i][1].trade_id :
                                            i \in 1 .. Len(r.new_whales)}
                       /\ ppc' = IF r.new_whales # << >> THEN "posting"
                                 ELSE "sleep"
          /\ fill_left' = fill_left - nfill
          /\ feed_left' = feed_left - Len(batch)
          /\ anon_left' = [a \in AnonItems |->
                              anon_left[a] - AnonCount(batch, a)]
    /\ cycle_count' = cycle_count + 1
    /\ UNCHANGED <<mode, threshold, sysVars, tradeVars, publishes, last_post,
                   connVars, cbVars>>

\* how one publish attempt can end: post_tweet returns the tweet's id,
\* post_tweet returns None (no data in the answer, or an error it caught),
\* or the body of the try raises
PostOutcomes == {"id", "none", "raise"}

\* post_whale_trades: the alerts still to attempt after one iteration of the
\* "for trade, market in whale_trades" loop, whatever its outcome
AfterPublish_mut_retry(alerts, outcome) ==
    IF outcome = "id" THEN Tail(alerts) ELSE alerts

AfterPublish(alerts, outcome) == Tail(alerts)

\* post_whale_trades: one iteration, the post_tweet call returning an id,
\* returning None or raising
PostNext ==
    /\ mode = "poll"
    /\ ppc = "posting"
    /\ whale_trades # << >>
    /\ \E outcome \in PostOutcomes :
          /\ publishes' = [publishes EXCEPT
                              ![Head(whale_trades)[1].trade_id] = @ + 1]
          /\ last_post' = [id |-> Head(whale_trades)[1].trade_id,
                           outcome |-> outcome]
          /\ whale_trades' = AfterPublish(whale_trades, outcome)
          /\ ppc' = IF AfterPublish(whale_trades, outcome) = << >>
                    THEN "sleep" ELSE "posting"
    /\ UNCHANGED <<mode, threshold, anon_left, sysVars, tradeVars, seen_trade_ids, seen_fill,
                   market_cache, detections, evicted, dropped, skipped,
                   fill_left, last_fetch,
                   last_result, cycle_count, feed_left, fetch_status, connVars, cbVars>>

\* run(): time.sleep(CHECK_INTERVAL_SECONDS), then the next cycle
PollSleep ==
    /\ mode = "poll"
    /\ ppc = "sleep"
    /\ ppc' = "cycle"
    /\ UNCHANGED <<mode, threshold, anon_left, sysVars, tradeVars, pipeVars, whale_trades,
                   last_fetch, last_result, cycle_count, feed_left, fetch_status,
                   connVars, cbVars>>

\* ValshiX.run: the except clauses around the loop, and how the process ends
PollRunExcept(exc) ==
    IF Catches("KeyboardInterrupt", exc)
    THEN [ppc |-> "stopped", exit_code |-> Some(0),
          notice |-> "Bot stopped by user"]
    ELSE IF Catches("Exception", exc)
    THEN [ppc |-> "fatal", exit_code |-> Some(1), notice |-> "Fatal error"]
    ELSE [ppc |-> "killed", exit_code |-> Some(1), notice |-> "Traceback"]

\* the exceptions that can arrive at each point of the loop: Ctrl+C anywhere,
\* an unexpected error out of find_new_whale_trades
PollRaisable(at) ==
    IF at = "cycle" THEN {"KeyboardInterrupt", "RuntimeError"}
    ELSE {"KeyboardInterrupt"}

\* an exception arrives in the loop: inside post_whale_trades' try (a publish
\* or the pause after it) it first meets that "except Exception", otherwise
\* it goes straight to run()'s except clauses
PollRaise ==
    /\ mode = "poll"
    /\ ppc \in {"cycle", "posting", "sleep"}
    /\ fault = NoFault
    /\ \E exc \in PollRaisable(ppc) :
          /\ fault' = [exc |-> exc, at |-> ppc]
          /\ IF ppc = "posting" /\ Catches("Exception", exc)
             THEN /\ whale_trades' = Tail(whale_trades)
                  /\ ppc' = IF Tail(whale_trades) = << >> THEN "sleep"
                            ELSE "posting"
                  /\ UNCHANGED <<exit_code, notice>>
             ELSE LET h == PollRunExcept(exc)
                  IN  /\ ppc' = h.ppc
                      /\ exit_code' = h.exit_code
                      /\ notice' = h.notice
                      /\ UNCHANGED whale_trades
    /\ UNCHANGED <<mode, threshold, anon_left, boot, creds, boot_log, tradeVars, pipeVars,
                   last_fetch, last_result, cycle_count, feed_left, fetch_status,
                   connVars, cbVars>>

NextPoll == PollRaise \/ BootStep \/ PollRun \/ PollCycle \/ PostNext \/ PollSleep

SpecPoll == InitPoll /\ [][NextPoll]_vars

----------------------------------------------------------------------------
\* Streaming client (websocket_client.py)

max_reconnect_delay == 60

\* "while self.running:" and "if not self.websocket:" at the top of the
\* listen loop: the await the loop suspends at next
LoopTop_mut_ignore_running(run, ws) ==
    IF ws = "None" THEN "connecting" ELSE "receiving"

LoopTop(run, ws) ==
    IF ~run THEN "done"
    ELSE IF ws = "None" THEN "connecting" ELSE "receiving"

\* the doubling of the delay after a failed connect and its sleep
NextDelay_mut_nocap(delay) == delay * 2

NextDelay(delay) == Min(delay * 2, max_reconnect_delay)

\* inbound frames other than trades
ControlFrames ==
    {[type |-> Some("subscribed"), msg |-> Some([channel |-> Some("trade")])],
     [type |-> Some("error"), msg |-> Some([code |-> Some(6)])],
     [type |-> Some("heartbeat")]}

\* a trade never delivered before and below the threshold
FreshId == "fresh"

FreshFrame == StreamFrame(FreshId, "MKT-A", "yes", 2000, 75, 25)

\* a trade never delivered before whose payload comes without its count
PartialFrame ==
    [FreshFrame EXCEPT !.msg = Some(Without(FreshFrame.msg[1], {"count"}))]

\* handle_message: the callback tasks after the frame has been handled
handle_message_mut_any(data, pending) ==
    IF "msg" \in DOMAIN data
    THEN Append(pending,
                NormalizeTrade(DictGet(data, "msg", Some(<< >>))[1]))
    ELSE pending

handle_message(data, pending) ==
    IF DictGet(data, "type", None) = Some("trade")
    THEN Append(pending,
                NormalizeTrade(DictGet(data, "msg", Some(<< >>))[1]))
    ELSE pending

\* the frames handle_message is tried on: every trade of the feed, the
\* control frames, and a frame without a type tag
DispatchFrames ==
    {FeedFrame(i) : i \in Ids} \cup {FreshFrame} \cup ControlFrames
        \cup {[msg |-> Some([channel |-> Some("trade")])]}

\* the callback tasks that may be pending when a frame arrives
PendingTasks ==
    UNION {[1 .. n -> {NormalizeTrade(FeedFrame(i).msg[1]) : i \in Ids}] :
              n \in 0 .. MaxTasks - 1}

\* a client connected and at its receive, a frame arriving
InitDispatch ==
    /\ mode = "dispatch"
    /\ InitSysNone
    /\ threshold = WHALE_THRESHOLD_DOLLARS
    /\ wire = [path |-> "none"]
    /\ built = [path |-> "none"]
    /\ \E p \in PendingTasks, f \in DispatchFrames :
          /\ fmt = [op |-> "handle_message", data |-> f, pending |-> p]
          /\ tasks = p
    /\ out = [op |-> "none"]
    /\ InitPipe /\ seen_fill = 0
    /\ InitPollVars
    /\ running = TRUE
    /\ websocket = "conn"
    /\ reconnect_delay = 1
    /\ lpc = "receiving"
    /\ cpc = "off"
    /\ conn_open = TRUE
    /\ subscribed \in BOOLEAN
    /\ connect_result = "True"
    /\ fails = 0
    /\ loss = "none"
    /\ cb = Idle
    /\ frames_left = MaxFrames

\* listen(): recv returned the frame; handle_message is awaited and the
\* loop goes back to its top
HandleMessage ==
    /\ mode = "dispatch"
    /\ out.op = "none"
    /\ tasks' = handle_message(fmt.data, tasks)
    /\ lpc' = LoopTop(running, websocket)
    /\ out' = [op |-> "handle_message"]
    /\ UNCHANGED <<mode, threshold, anon_left, sysVars, wire, built, fmt, pipeVars,
                   pollVars, running, websocket, reconnect_delay, cpc,
                   conn_open, subscribed, connect_result, fails, loss, cb,
                   frames_left>>

NextDispatch == HandleMessage

SpecDispatch == InitDispatch /\ [][NextDispatch]_vars

\* the event loop runs one coroutine at a time: a callback that has started
\* (a plain function called by _run_callback) holds it until it returns
LoopFree == cb.pc = "idle"

InitStreamFed(frames, anon) ==
    /\ mode = "stream"
    /\ InitSys
    /\ threshold = WHALE_THRESHOLD_DOLLARS
    /\ wire = [path |-> "none"]
    /\ built = [path |-> "none"]
    /\ fmt = [op |-> "none"]
    /\ out = [op |-> "none"]
    /\ InitPipe
    /\ ppc = "off"
    /\ whale_trades = << >>
    /\ last_fetch = {}
    /\ last_result = {}
    /\ cycle_count = 0
    /\ feed_left = MaxFeed
    /\ anon_left = [a \in AnonItems |-> anon]
    /\ fetch_status = "none"
    /\ running = FALSE
    /\ websocket = "None"
    /\ reconnect_delay = 1
    /\ lpc = "off"
    /\ cpc = "off"
    /\ conn_open = FALSE
    /\ subscribed = FALSE
    /\ connect_result = "none"
    /\ fails = 0
    /\ loss = "none"
    /\ tasks = << >>
    /\ cb = Idle
    /\ frames_left = frames

InitStreamWith(frames) == InitStreamFed(frames, 0)

InitStream == InitStreamWith(MaxFrames)

\* run() awaits listen(): running = True, then the first pass of the loop top
ListenStart ==
    /\ mode = "stream" /\ LoopFree
    /\ boot = "ready"
    /\ lpc = "off"
    /\ running' = TRUE
    /\ lpc' = LoopTop(TRUE, websocket)
    /\ UNCHANGED <<mode, loss, threshold, anon_left, sysVars, tradeVars, pipeVars, pollVars, websocket,
                   reconnect_delay, cpc, conn_open, subscribed, connect_result,
                   fails, cbVars>>

\* connect(): websockets.connect returned a connection; subscribe_to_trades
\* is now awaiting its send
ConnectOpened ==
    /\ mode = "stream" /\ LoopFree
    /\ lpc = "connecting"
    /\ websocket' = "conn"
    /\ conn_open' = TRUE
    /\ subscribed' = FALSE
    /\ lpc' = "subscribing"
    /\ loss' = "none"
    /\ UNCHANGED <<mode, threshold, anon_left, sysVars, tradeVars, pipeVars, pollVars, running,
                   reconnect_delay, cpc, connect_result, fails, cbVars>>

\* connect(): websockets.connect raised; connect returns False and listen
\* starts its back-off sleep
ConnectFailed ==
    /\ mode = "stream" /\ LoopFree
    /\ lpc = "connecting"
    /\ fails < MaxFails
    /\ connect_result' = "False"
    /\ fails' = fails + 1
    /\ lpc' = "sleeping"
    /\ UNCHANGED <<mode, loss, threshold, anon_left, sysVars, tradeVars, pipeVars, pollVars, running,
                   websocket, reconnect_delay, cpc, conn_open, subscribed,
                   cbVars>>

\* connect(): "self.reconnect_delay = 1" after the subscribe
ResetDelay_mut_keep(delay) == delay

ResetDelay(delay) == 1

\* subscribe_to_trades: the send succeeds, or raises and the exception is
\* swallowed; either way connect() resets the delay and returns True, and
\* listen goes on to its first receive
Subscribe ==
    /\ mode = "stream" /\ LoopFree
    /\ lpc = "subscribing"
    /\ subscribed' = conn_open
    /\ reconnect_delay' = ResetDelay(reconnect_delay)
    /\ connect_result' = "True"
    /\ fails' = 0
    /\ lpc' = "receiving"
    /\ UNCHANGED <<mode, loss, threshold, anon_left, sysVars, tradeVars, pipeVars, pollVars, running,
                   websocket, cpc, conn_open, cbVars>>

\* listen(): the back-off sleep ends, the delay is doubled, "continue"
BackoffWake ==
    /\ mode = "stream" /\ LoopFree
    /\ lpc = "sleeping"
    /\ reconnect_delay' = NextDelay(reconnect_delay)
    /\ lpc' = LoopTop(running, websocket)
    /\ UNCHANGED <<mode, loss, threshold, anon_left, sysVars, tradeVars, pipeVars, pollVars, running,
                   websocket, cpc, conn_open, subscribed, connect_result, fails,
                   cbVars>>

\* listen(): recv returns a trade frame; handle_message creates the callback task
RecvTrade ==
    /\ mode = "stream" /\ LoopFree
    /\ lpc = "receiving"
    /\ conn_open
    /\ frames_left > 0
    /\ Len(tasks) < MaxTasks
    /\ \E f \in {FeedFrame(i) : i \in Ids} \cup
                 (IF fill_left > 0 THEN {FreshFrame, PartialFrame} ELSE {}) \cup
                 {WireFrame(a) : a \in {x \in AnonItems : anon_left[x] > 0}} :
          /\ tasks' = handle_message(f, tasks)
          /\ fill_left' = IF f \in {FreshFrame, PartialFrame}
                          THEN fill_left - 1 ELSE fill_left
          /\ anon_left' = [a \in AnonItems |->
                              IF f = WireFrame(a) THEN anon_left[a] - 1
                              ELSE anon_left[a]]
    /\ frames_left' = frames_left - 1
    /\ lpc' = LoopTop(running, websocket)
    /\ UNCHANGED <<mode, loss, threshold, sysVars, tradeVars, seen_trade_ids, seen_fill,
                   market_cache, detections, publishes, last_post, evicted, dropped,
                   skipped, pollVars,
                   running, websocket, reconnect_delay, cpc, conn_open,
                   subscribed, connect_result, fails, cb>>

\* listen(): recv returns a frame of another type; handle_message logs it
RecvControl ==
    /\ mode = "stream" /\ LoopFree
    /\ lpc = "receiving"
    /\ conn_open
    /\ \E f \in ControlFrames : tasks' = handle_message(f, tasks)
    /\ lpc' = LoopTop(running, websocket)
    /\ UNCHANGED <<mode, loss, threshold, anon_left, sysVars, tradeVars, pipeVars, pollVars, running,
                   websocket, reconnect_delay, cpc, conn_open, subscribed,
                   connect_result, fails, cb, frames_left>>

\* listen(): json.loads or handle_message raises; "except Exception" sleeps 1s
RecvMalformed ==
    /\ mode = "stream" /\ LoopFree
    /\ lpc = "receiving"
    /\ conn_open
    /\ lpc' = "errsleep"
    /\ UNCHANGED <<mode, loss, threshold, anon_left, sysVars, tradeVars, pipeVars, pollVars, running,
                   websocket, reconnect_delay, cpc, conn_open, subscribed,
                   connect_result, fails, cbVars>>

\* listen(): the sleep of the generic handler ends
ErrWake ==
    /\ mode = "stream" /\ LoopFree
    /\ lpc = "errsleep"
    /\ lpc' = LoopTop(running, websocket)
    /\ UNCHANGED <<mode, loss, threshold, anon_left, sysVars, tradeVars, pipeVars, pollVars, running,
                   websocket, reconnect_delay, cpc, conn_open, subscribed,
                   connect_result, fails, cbVars>>

\* listen(): the receive times out after 30s; the ping is awaited
RecvTimeout ==
    /\ mode = "stream" /\ LoopFree
    /\ lpc = "receiving"
    /\ conn_open
    /\ lpc' = "pinging"
    /\ UNCHANGED <<mode, loss, threshold, anon_left, sysVars, tradeVars, pipeVars, pollVars, running,
                   websocket, reconnect_delay, cpc, conn_open, subscribed,
                   connect_result, fails, cbVars>>

\* listen(): "except websockets.exceptions.ConnectionClosed:",
\* "self.websocket = None"
OnConnectionClosed_mut_keep(ws) == ws

OnConnectionClosed(ws) == "None"

\* listen(): recv raises ConnectionClosed; websocket = None
RecvClosed ==
    /\ mode = "stream" /\ LoopFree
    /\ lpc = "receiving"
    /\ ~conn_open
    /\ websocket' = OnConnectionClosed(websocket)
    /\ lpc' = LoopTop(running, OnConnectionClosed(websocket))
    /\ loss' = "closed"
    /\ UNCHANGED <<mode, threshold, anon_left, sysVars, tradeVars, pipeVars, pollVars, running,
                   reconnect_delay, cpc, conn_open, subscribed, connect_result,
                   fails, cbVars>>

\* listen(): the ping is sent
PingOk ==
    /\ mode = "stream" /\ LoopFree
    /\ lpc = "pinging"
    /\ conn_open
    /\ lpc' = LoopTop(running, websocket)
    /\ UNCHANGED <<mode, loss, threshold, anon_left, sysVars, tradeVars, pipeVars, pollVars, running,
                   websocket, reconnect_delay, cpc, conn_open, subscribed,
                   connect_result, fails, cbVars>>

\* listen(): "except:" around the ping, "self.websocket = None"
OnPingError_mut_keep(ws) == ws

OnPingError(ws) == "None"

\* listen(): the ping raises; websocket = None
PingFail ==
    /\ mode = "stream" /\ LoopFree
    /\ lpc = "pinging"
    /\ ~conn_open
    /\ websocket' = OnPingError(websocket)
    /\ lpc' = LoopTop(running, OnPingError(websocket))
    /\ loss' = "ping"
    /\ UNCHANGED <<mode, threshold, anon_left, sysVars, tradeVars, pipeVars, pollVars, running,
                   reconnect_delay, cpc, conn_open, subscribed, connect_result,
                   fails, cbVars>>

\* the peer or the network ends the connection
PeerClose ==
    /\ mode = "stream" /\ LoopFree
    /\ lpc # "killed"
    /\ conn_open
    /\ conn_open' = FALSE
    /\ UNCHANGED <<mode, loss, threshold, anon_left, sysVars, tradeVars, pipeVars, pollVars, running,
                   websocket, reconnect_delay, lpc, cpc, subscribed,
                   connect_result, fails, cbVars>>

\* close(), called while listen() runs: running = False, and the close of
\* the connection is awaited if self.websocket is set
CloseCall ==
    /\ mode = "stream" /\ LoopFree
    /\ fault = NoFault
    /\ cpc = "off"
    /\ lpc \notin {"off", "done"}
    /\ running' = FALSE
    /\ cpc' = IF websocket # "None" THEN "closing" ELSE "done"
    /\ UNCHANGED <<mode, loss, threshold, anon_left, sysVars, tradeVars, pipeVars, pollVars, websocket,
                   reconnect_delay, lpc, conn_open, subscribed, connect_result,
                   fails, cbVars>>

\* close(): websocket.close() returns
CloseFinish ==
    /\ mode = "stream" /\ LoopFree
    /\ cpc = "closing"
    /\ conn_open' = FALSE
    /\ cpc' = "done"
    /\ UNCHANGED <<mode, loss, threshold, anon_left, sysVars, tradeVars, pipeVars, pollVars, running,
                   websocket, reconnect_delay, lpc, subscribed, connect_result,
                   fails, cbVars>>

----------------------------------------------------------------------------
\* Streaming bot (bot_websocket.py)

StreamSeenMax == 10000

StreamSeenKeep == 5000

\* handle_trade's membership test on the seen set
AlreadySeen_mut_never(trade_id, seen) == FALSE

AlreadySeen(trade_id, seen) == trade_id \in seen

\* handle_trade's "self.seen_trade_ids.add(trade_id)", right after the test
AddSeen_mut_late(seen, trade_id) == seen

AddSeen(seen, trade_id) == seen \cup {trade_id}

\* _run_callback starts the next task: handle_trade runs up to its return or
\* up to its first blocking request (market fetch, or publish when the
\* market is cached)
StartCallback ==
    /\ mode = "stream" /\ LoopFree
    /\ tasks # << >>
    /\ tasks' = Tail(tasks)
    /\ LET trade_data == Head(tasks)
           trade_id   == DictGet(trade_data, "trade_id", Some(""))
           fresh      == trade_id = Some(FreshId)
           ids2       == IF fresh THEN seen_trade_ids
                         ELSE AddSeen(seen_trade_ids, trade_id)
           fill2      == IF fresh THEN seen_fill + 1 ELSE seen_fill
           trade      == Trade(trade_data)
       IN  IF ~fresh /\ AlreadySeen(trade_id, seen_trade_ids)
           THEN /\ cb' = Idle
                /\ skipped' = skipped \cup {trade_id}
                /\ UNCHANGED <<seen_trade_ids, seen_fill, evicted, detections>>
           ELSE IF ~trade.ok
           THEN /\ cb' = Idle
                /\ seen_trade_ids' = ids2
                /\ seen_fill' = fill2
                /\ UNCHANGED <<evicted, detections, skipped>>
           ELSE IF ~is_whale(trade, threshold)
           THEN /\ cb' = Idle
                /\ Compact(ids2, fill2, StreamSeenMax, StreamSeenKeep)
                /\ UNCHANGED <<detections, skipped>>
           ELSE /\ seen_trade_ids' = ids2
                /\ seen_fill' = fill2
                /\ detections' = Bump(detections, trade_id)
                /\ cb' = IF trade.ticker \in DOMAIN market_cache
                         THEN [pc |-> "post", trade |-> trade,
                               market |-> market_cache[trade.ticker]]
                         ELSE [pc |-> "market", trade |-> trade]
                /\ UNCHANGED <<evicted, skipped>>
    /\ UNCHANGED <<mode, threshold, anon_left, sysVars, tradeVars, market_cache, publishes,
                   last_post, dropped,
                   fill_left, pollVars, connVars, frames_left>>

\* handle_trade: get_market_details' request returns; without market details
\* the trade is dropped and handle_trade ends with its compaction
CallbackMarket ==
    /\ mode = "stream"
    /\ cb.pc = "market"
    /\ \E ans \in {"ok", "fail"} :
          LET resp == IF ans = "ok" THEN Some(MarketOf(cb.trade.ticker))
                      ELSE None
              md   == get_market_details(market_cache, cb.trade.ticker, resp)
          IN  /\ market_cache' = md.cache
              /\ dropped' = IF resp = None
                            THEN dropped \cup {cb.trade.trade_id}
                            ELSE dropped
              /\ IF md.market # None
                 THEN /\ cb' = [pc |-> "post", trade |-> cb.trade,
                                market |-> md.market[1]]
                      /\ UNCHANGED <<seen_trade_ids, seen_fill, evicted>>
                 ELSE /\ cb' = Idle
                      /\ Compact(seen_trade_ids, seen_fill,
                                 StreamSeenMax, StreamSeenKeep)
    /\ UNCHANGED <<mode, threshold, anon_left, sysVars, tradeVars, detections, publishes,
                   last_post, skipped,
                   fill_left, pollVars, connVars, tasks, frames_left>>

\* handle_trade: post_whale_trade's post_tweet call returns an id, returns
\* None or raises; handle_trade ends with its compaction
CallbackPost ==
    /\ mode = "stream"
    /\ cb.pc = "post"
    /\ \E outcome \in PostOutcomes :
          /\ publishes' = Bump(publishes, cb.trade.trade_id)
          /\ last_post' = [id |-> cb.trade.trade_id, outcome |-> outcome]
    /\ cb' = Idle
    /\ Compact(seen_trade_ids, seen_fill, StreamSeenMax, StreamSeenKeep)
    /\ UNCHANGED <<mode, threshold, anon_left, sysVars, tradeVars, market_cache, detections,
                   dropped, skipped, fill_left, pollVars, connVars, tasks,
                   frames_left>>

\* ValshiXWebSocket.run: the except clauses around "await listen()"
StreamRunExcept(exc) ==
    IF Catches("KeyboardInterrupt", exc) THEN "close"
    ELSE IF Catches("Exception", exc) THEN "fatal"
    ELSE "uncaught"

\* what Ctrl+C delivers to the coroutines under asyncio.run: the main task is
\* cancelled (CancelledError at its await), or, when the signal lands while
\* the main coroutine itself is executing, KeyboardInterrupt is raised in it
Interrupts(loop_free) ==
    IF loop_free THEN {"KeyboardInterrupt", "CancelledError"}
    ELSE {"CancelledError"}

\* Ctrl+C while the bot listens.  At the keep-alive ping the bare "except:"
\* of listen() takes it for a lost connection.  Otherwise it leaves listen()
\* and meets run()'s except clauses: "close" calls close(); uncaught, it
\* ends asyncio.run with every task cancelled and main() with a traceback.
StreamInterrupt ==
    /\ mode = "stream"
    /\ lpc \notin {"off", "done", "killed"}
    /\ cpc = "off"
    /\ fault = NoFault
    /\ \E exc \in Interrupts(LoopFree) :
          /\ fault' = [exc |-> exc, at |-> lpc]
          /\ IF lpc = "pinging"
             THEN /\ websocket' = "None"
                  /\ loss' = "ping"
                  /\ lpc' = LoopTop(running, "None")
                  /\ UNCHANGED <<running, cpc, tasks, cb, exit_code, notice>>
             ELSE LET h == StreamRunExcept(exc)
                  IN  IF h = "close"
                      THEN /\ running' = FALSE
                           /\ cpc' = IF websocket # "None" THEN "closing"
                                     ELSE "done"
                           /\ lpc' = "done"
                           /\ notice' = "Stopping bot"
                           /\ UNCHANGED <<websocket, loss, tasks, cb, exit_code>>
                      ELSE /\ lpc' = "killed"
                           /\ tasks' = << >>
                           /\ cb' = Idle
                           /\ exit_code' = IF h = "fatal" THEN Some(1)
                                           ELSE Some(130)
                           /\ notice' = IF h = "fatal" THEN "Fatal error"
                                        ELSE "Traceback"
                           /\ UNCHANGED <<running, websocket, loss, cpc>>
    /\ UNCHANGED <<mode, threshold, anon_left, boot, creds, boot_log, tradeVars, pipeVars,
                   pollVars, reconnect_delay, conn_open, subscribed,
                   connect_result, fails, frames_left>>

\* run(): close() has returned after the interrupt; the goodbye notice, and
\* asyncio.run ends with the tasks still pending cancelled
StreamRunReturn ==
    /\ mode = "stream" /\ LoopFree
    /\ fault.exc = "KeyboardInterrupt"
    /\ cpc = "done"
    /\ exit_code = None
    /\ notice' = "Bot stopped"
    /\ exit_code' = Some(0)
    /\ tasks' = << >>
    /\ UNCHANGED <<mode, threshold, anon_left, boot, creds, boot_log, fault, tradeVars,
                   pipeVars, pollVars, connVars, cb, frames_left>>

\* the steps of the listen() coroutine
ListenStep ==
    \/ ListenStart \/ ConnectOpened \/ ConnectFailed \/ Subscribe
    \/ BackoffWake \/ RecvTrade \/ RecvControl \/ RecvMalformed \/ ErrWake
    \/ RecvTimeout \/ RecvClosed \/ PingOk \/ PingFail

\* the steps of the callback tasks
CallbackStep == StartCallback \/ CallbackMarket \/ CallbackPost

NextStream ==
    \/ BootStep
    \/ ListenStep \/ CallbackStep \/ PeerClose \/ CloseCall \/ CloseFinish
    \/ StreamInterrupt \/ StreamRunReturn

SpecStream == InitStream /\ [][NextStream]_vars

\* every await of listen(), of close() and of a callback returns: the sleeps
\* end, the receive is bounded by its 30s timeout, the requests answer
FairStream ==
    /\ InitStreamWith(MaxLiveFrames)
    /\ [][NextStream]_vars
    /\ WF_vars(ListenStep)
    /\ WF_vars(CallbackStep)
    /\ WF_vars(CloseFinish)

----------------------------------------------------------------------------
\* The three programs together.

Init == InitTrade \/ InitPoll \/ InitStream

Next == NextTrade \/ NextPoll \/ NextStream

Spec == Init /\ [][Next]_vars

\* The bot in a long session: more trades fetched, more frames delivered.
InitLongPoll == InitPollWith(MaxLongFeed) \/ InitStream

SpecLongPoll == InitLongPoll /\ [][NextPoll \/ NextStream]_vars

SpecLongStream == InitStreamWith(MaxLongFrames) /\ [][NextStream]_vars

\* The bot fed records without a trade_id among the others.
InitAnon ==
    InitPollFed(MaxFeed, MaxAnon) \/ InitStreamFed(MaxFrames, MaxAnon)

SpecAnon == InitAnon /\ [][NextPoll \/ NextStream]_vars

----------------------------------------------------------------------------
\* Properties.

\* C1 as stated: in either mode no trade id is ever detected as a whale more
\* than once or handed to post_tweet more than once.
C1_AtMostOnce ==
    \A k \in Keys : detections[k] <= 1 /\ publishes[k] <= 1

\* C1: in either mode a trade id that no compaction has dropped from the seen
\* set is detected as a whale at most once and published at most once,
\* however often it is delivered.
C1_AtMostOnceUnlessEvicted ==
    \A k \in Keys : k \notin evicted => (detections[k] <= 1 /\ publishes[k] <= 1)

\* t1 was published in an earlier cycle, is fetched again and is not in the result
C1_Witness ==
    /\ mode = "poll"
    /\ Some("t1") \in last_fetch
    /\ Some("t1") \notin last_result
    /\ Some("t1") \notin evicted
    /\ detections[Some("t1")] = 1
    /\ publishes[Some("t1")] = 1

\* C2: a new whale whose market resolves is in the result of the cycle that
\* first fetches it, and a trade in the result of one cycle that the next
\* cycle fetches again is not in the result of that next cycle.
C2_NotRepublished ==
    [][cycle_count' = cycle_count + 1 =>
         \A k \in Keys :
            /\ (/\ k \in last_fetch'
                /\ k \notin seen_trade_ids
                /\ is_whale(Trade(FeedRest(k[1])), threshold)
                /\ Trade(FeedRest(k[1])).ticker \in DOMAIN market_cache')
                  => k \in last_result'
            /\ (k \in last_result /\ k \in last_fetch') => k \notin last_result'
      ]_vars

RECURSIVE Pow2(_)
Pow2(n) == IF n <= 0 THEN 1 ELSE 2 * Pow2(n - 1)

\* the back-off sleep is under way, or an interrupt ended listen() in it
C6_InSleep ==
    \/ lpc = "sleeping"
    \/ lpc \in {"done", "killed"} /\ fault.at = "sleeping"

\* C6: with N connect attempts failed in a row since the start or the last
\* successful connect, the delay is min(2^N, 60) once the back-off sleep of
\* the N-th failure is over (during that sleep it still is min(2^(N-1), 60)),
\* and it is 1 after a successful connect.
C6_BackoffDelay ==
    mode = "stream" =>
        /\ ~C6_InSleep =>
              reconnect_delay = Min(Pow2(fails), max_reconnect_delay)
        /\ C6_InSleep =>
              reconnect_delay = Min(Pow2(fails - 1), max_reconnect_delay)
        /\ (connect_result = "True" /\ lpc \in {"receiving", "pinging", "errsleep"})
              => reconnect_delay = 1

\* seven failures in a row: the delay has reached its ceiling
C6_Witness ==
    /\ mode = "stream"
    /\ fails = 7
    /\ lpc = "connecting"
    /\ reconnect_delay = 60

\* C7: when the subscribe command cannot be sent, connect() reports failure,
\* leaves the delay alone and listen does not go on to receive; listen only
\* receives on a subscribed connection.
C7_SubscribeFailureReported ==
    [][(mode = "stream" /\ lpc = "subscribing" /\ lpc' # "subscribing") =>
          /\ ~conn_open =>
                /\ connect_result' = "False"
                /\ reconnect_delay' = reconnect_delay
                /\ lpc' # "receiving"
          /\ lpc' = "receiving" => subscribed'
      ]_vars

\* C8: once close() has been called the listen loop ends, and it starts no
\* connect attempt after the call.
C8_CloseStopsListen ==
    /\ (mode = "stream" /\ cpc # "off") ~> (lpc = "done")
    /\ [][(mode = "stream" /\ cpc # "off" /\ lpc # "connecting")
             => lpc' # "connecting"]_vars

\* close() was called and the loop has ended
C8_Witness ==
    /\ mode = "stream"
    /\ cpc = "done"
    /\ lpc = "done"
    /\ ~running

\* C9: when close() has returned and the listen loop has ended, the
\* connection is not open.
C9_NoOpenConnection ==
    (mode = "stream" /\ cpc = "done" /\ lpc = "done") => ~conn_open

\* C10: while a callback has started and not finished, the receive loop,
\* waiting on an open connection, can take the next frame.
C10_ReceiveNotStalled ==
    (mode = "stream" /\ cb.pc # "idle" /\ lpc = "receiving" /\ conn_open)
        => ENABLED (RecvControl \/ RecvTrade)

\* C11: every find_new_whale_trades call returns with at most 10,000 ids in
\* the seen set; when the batch took it above 10,000 it returns with exactly
\* 5,000, all of them members before the compaction.
C11_CompactionBound ==
    [][(mode = "poll" /\ cycle_count' = cycle_count + 1) =>
          LET added  == fill_left - fill_left'
              before == Cardinality(seen_trade_ids \cup last_fetch')
                          + seen_fill + added
              after  == Cardinality(seen_trade_ids') + seen_fill'
          IN  /\ after <= 10000
              /\ before > 10000 =>
                    /\ after = 5000
                    /\ seen_trade_ids' \subseteq seen_trade_ids \cup last_fetch'
                    /\ seen_fill' <= seen_fill + added
      ]_vars

\* a call has returned with the seen set cut to 5,000
C11_Witness ==
    /\ mode = "poll"
    /\ cycle_count >= 1
    /\ Cardinality(seen_trade_ids) + seen_fill = 5000

\* C12: a whale trade whose market-details fetch failed is never published
\* while its id stays in the seen set, however often it is delivered again
\* and whatever the later market fetches answer, and the step that drops it
\* leaves the loop running (polling: on to its sleep or its posts; streaming:
\* the callback returns and the listen loop keeps its position).
C12_DroppedNotPublished ==
    /\ [](\A k \in dropped \ evicted : publishes[k] = 0 /\ detections[k] = 1)
    /\ [][dropped' # dropped =>
            \/ mode = "poll" /\ ppc' \in {"posting", "sleep"}
            \/ mode = "stream" /\ cb' = Idle /\ lpc' = lpc /\ running' = running
         ]_vars

\* a dropped whale was delivered again while still in the seen set
C12_Witness ==
    /\ Some("t1") \in dropped
    /\ Some("t1") \in skipped
    /\ Some("t1") \notin evicted
    /\ publishes[Some("t1")] = 0
    /\ market_cache # << >>

\* C13: a request that fails (non-200 status or transport exception) returns
\* None, and a poll cycle whose trades request failed has an empty whale
\* list, leaves the seen set and the market cache as they were, publishes
\* nothing and goes on to the sleep before the next cycle.
C13_FailedFetchFrame ==
    [][(mode = "poll" /\ cycle_count' = cycle_count + 1
          /\ fetch_status' \in {"http_error", "exception"}) =>
            /\ \A r \in TradesResponses(<<FeedRest("t1")>>) :
                  (r.raised \/ r.status_code # 200) =>
                      (_make_request(r) = None /\ get_trades(r) = None)
            /\ whale_trades' = << >>
            /\ last_result' = {}
            /\ seen_trade_ids' = seen_trade_ids
            /\ seen_fill' = seen_fill
            /\ market_cache' = market_cache
            /\ publishes' = publishes
            /\ ppc' = "sleep"
      ]_vars

\* a cycle whose trades request failed came after one that saw trades, and
\* the loop is at its sleep
C13_Witness ==
    /\ mode = "poll"
    /\ fetch_status \in {"http_error", "exception"}
    /\ cycle_count = 2
    /\ seen_trade_ids # {}
    /\ ppc = "sleep"

\* the text is "$", the digits of n and the suffix, n being the amount in
\* units of unit cents rounded to a nearest integer
RendersNearest(text, cents, unit, suffix) ==
    \E n \in {cents \div unit, cents \div unit + 1} :
        /\ 2 * (n * unit - cents) <= unit
        /\ 2 * (cents - n * unit) <= unit
        /\ text = "$" \o ToString(n) \o suffix

\* the text is "$x.yM", x.y being the amount's whole dollars in millions
\* rounded to a nearest tenth
RendersMillions(text, cents) ==
    \E t \in {cents \div 10000000, cents \div 10000000 + 1} :
        /\ 2 * (t * 100000 - cents \div 100) <= 100000
        /\ 2 * (cents \div 100 - t * 100000) <= 100000
        /\ text = "$" \o ToString(t \div 10) \o "." \o ToString(t % 10) \o "M"

C20_Rendering ==
    /\ fmt.cents >= 100000000 => RendersMillions(out.text, fmt.cents)
    /\ (fmt.cents >= 100000 /\ fmt.cents < 100000000) =>
            RendersNearest(out.text, fmt.cents, 100000, "K")
    /\ fmt.cents < 100000 => RendersNearest(out.text, fmt.cents, 100, "")

\* C20 as stated: millions with one decimal and M, whole thousands with K,
\* whole dollars; 1,250,000 is "$1.3M", 125,000 is "$125K", 999,999 is
\* "$1000K".
C20_AsStated ==
    (mode = "format" /\ out.op = "format_currency") =>
        /\ C20_Rendering
        /\ fmt.cents = 125000000 => out.text = "$1.3M"
        /\ fmt.cents = 12500000 => out.text = "$125K"
        /\ fmt.cents = 99999900 => out.text = "$1000K"

\* C20 amended: the same, with 1,250,000 rendered as "$1.2M" (1.25 is a
\* tie, which the formatting rounds to the even tenth).
C20_CurrencyRendering ==
    (mode = "format" /\ out.op = "format_currency") =>
        /\ C20_Rendering
        /\ fmt.cents = 125000000 => out.text = "$1.2M"
        /\ fmt.cents = 12500000 => out.text = "$125K"
        /\ fmt.cents = 99999900 => out.text = "$1000K"

\* 1,250,000 has been formatted
C20_Witness ==
    /\ mode = "format" /\ out.op = "format_currency"
    /\ fmt.cents = 125000000
    /\ out.text = "$1.2M"

\* C16: on the REST path and on the streaming path a wire record lacking
\* any of its numeric or string fields yields a trade, the absent numerics
\* being 0 and the absent strings empty, whose notional is 0 when the count
\* or the price of its side is absent, and the whale test is evaluated.
C16_MissingFieldsDefault ==
    (mode = "trade" /\ built.path # "none") =>
        /\ built.trade.ok
        /\ \A k \in wire.absent \cap {"count", "yes_price", "no_price"} :
              built.trade[k] = Some(0)
        /\ \A k \in wire.absent \cap {"ticker", "side"} :
              built.trade[k] = Some("")
        /\ ("count" \in wire.absent
              \/ (built.trade.side = Some("yes") /\ "yes_price" \in wire.absent)
              \/ (built.trade.side # Some("yes") /\ "no_price" \in wire.absent))
             => built.trade.value_cents = 0
        /\ built.whale <=> (built.trade.value_cents >= threshold * 100)

\* C17: with a required credential missing the process reports a
\* configuration error and exits non-zero with no request made; the
\* monitoring loop runs only after validation, the exchange login and the
\* publisher test have succeeded in that order, and a failing step exits
\* non-zero with no later step run.
C17_StartupOrder ==
    mode \in {"poll", "stream"} =>
        /\ (creds # CredentialSet /\ boot # "config") =>
              /\ boot = "exited"
              /\ boot_log = <<[step |-> "validate", ok |-> FALSE]>>
              /\ exit_code = Some(1)
              /\ notice = "Configuration error"
        /\ (ppc # "off" \/ lpc # "off") =>
              /\ creds = CredentialSet
              /\ boot = "ready"
              /\ boot_log = <<[step |-> "validate", ok |-> TRUE],
                              [step |-> "login", ok |-> TRUE],
                              [step |-> "xtest", ok |-> TRUE]>>
        /\ boot = "exited" =>
              /\ exit_code = Some(1)
              /\ ppc = "off" /\ lpc = "off"
              /\ ~boot_log[Len(boot_log)].ok
              /\ \A i \in 1 .. Len(boot_log) - 1 : boot_log[i].ok
        /\ \A i \in DOMAIN boot_log :
              boot_log[i].step \in {"login", "xtest"} =>
                  (i > 1 /\ boot_log[1] = [step |-> "validate", ok |-> TRUE])

\* a run with the last credential missing has ended at the validation
C17_Witness ==
    /\ mode = "stream"
    /\ creds = CredentialSet \ {"X_ACCESS_TOKEN_SECRET"}
    /\ boot = "exited"
    /\ boot_log = <<[step |-> "validate", ok |-> FALSE]>>
    /\ exit_code = Some(1)

\* C18: in polling mode an operator interrupt arriving during the fetch and
\* detection, a publish or its pause, or the sleep ends the loop with the
\* shutdown notice and exit status 0, never through the fatal path; another
\* exception escaping a cycle ends the process with the fatal notice and
\* exit status 1; after either nothing more runs.
C18_InterruptIsClean ==
    /\ [][(mode = "poll" /\ fault = NoFault /\ fault' # NoFault) =>
            IF fault'.exc = "KeyboardInterrupt"
            THEN /\ ppc' = "stopped"
                 /\ exit_code' = Some(0)
                 /\ notice' = "Bot stopped by user"
            ELSE /\ ppc' = "fatal"
                 /\ exit_code' = Some(1)
                 /\ notice' = "Fatal error"
         ]_vars
    /\ [][mode = "poll" => ppc \notin {"stopped", "fatal"}]_vars
    /\ []((mode = "poll" /\ ppc = "fatal") => fault.exc # "KeyboardInterrupt")

\* the interrupt arrived while the alerts of a cycle were being published
C18_Witness ==
    /\ mode = "poll"
    /\ fault = [exc |-> "KeyboardInterrupt", at |-> "posting"]
    /\ ppc = "stopped"
    /\ whale_trades # << >>
    /\ exit_code = Some(0)

\* C19: in streaming mode an operator interrupt while the bot listens has
\* close() called, and the process then ends with the shutdown notice and
\* exit status 0, the connection closed.
C19_InterruptClosesStream ==
    /\ [][(mode = "stream" /\ fault = NoFault /\ fault' # NoFault) =>
            (cpc' # "off" /\ ~running' /\ lpc' = "done")]_vars
    /\ []((mode = "stream" /\ fault # NoFault /\ exit_code # None) =>
            (/\ exit_code = Some(0)
             /\ notice = "Bot stopped"
             /\ cpc = "done"))

\* C21: a publish attempt that fails (post_tweet returns no id, or the try
\* raises) counts one attempt for its alert and is not repeated: in polling
\* mode the attempt is for the head of the list and the rest of the list, in
\* its order, is what remains to attempt; in streaming mode the callback
\* ends; the loop goes on and the process does not exit.
C21_FailedPublishNotRetried ==
    [][(publishes' # publishes /\ last_post'.outcome # "id") =>
          /\ publishes' = Bump(publishes, last_post'.id)
          /\ exit_code' = exit_code
          /\ mode = "poll" =>
                /\ last_post'.id = Head(whale_trades)[1].trade_id
                /\ whale_trades' = Tail(whale_trades)
                /\ ppc' = IF whale_trades' = << >> THEN "sleep" ELSE "posting"
          /\ mode = "stream" =>
                /\ cb' = Idle
                /\ lpc' = lpc /\ running' = running /\ tasks' = tasks]_vars

\* the first of two alerts of a cycle failed and the second is still to come
C21_Witness ==
    /\ mode = "poll" /\ ppc = "posting"
    /\ last_post = [id |-> Some("t1"), outcome |-> "raise"]
    /\ publishes[Some("t1")] = 1 /\ publishes[Some("t2")] = 0
    /\ Len(whale_trades) = 1
    /\ whale_trades[1][1].trade_id = Some("t2")

\* position i of the batch is the first occurrence of its id and the id is
\* not in the seen set the call started from
FirstNew(trades, seen, i) ==
    /\ trades[i].trade_id \notin seen
    /\ \A j \in 1 .. i - 1 : trades[j].trade_id # trades[i].trade_id

\* the market details of the trade at position i resolve: its ticker was
\* cached at the start, or a request for it made up to position i succeeded
Resolves(trades, seen, cache, ans, thr, i) ==
    \/ trades[i].ticker \in DOMAIN cache
    \/ \E j \in 1 .. i :
          /\ FirstNew(trades, seen, j) /\ is_whale(trades[j], thr)
          /\ trades[j].ticker = trades[i].ticker
          /\ ans[j] = "ok"

\* the pairs C22 describes, in fetch order
ExpectedWhales(trades, seen, cache, ans, thr) ==
    LET idx == SelectSeq([i \in 1 .. Len(trades) |-> i],
                         LAMBDA i : /\ FirstNew(trades, seen, i)
                                    /\ is_whale(trades[i], thr)
                                    /\ Resolves(trades, seen, cache, ans,
                                                thr, i))
    IN  [k \in 1 .. Len(idx) |->
            <<trades[idx[k]],
              IF trades[idx[k]].ticker \in DOMAIN cache
              THEN cache[trades[idx[k]].ticker]
              ELSE MarketOf(trades[idx[k]].ticker)>>]

\* C22: for every seen set S and fetched batch B, find_new_whale_trades
\* returns exactly the (trade, market) pairs of the trades of B, in fetch
\* order, that are the first occurrence in B of an id not in S, are worth at
\* least the threshold and whose market details resolve; and before the
\* compaction the seen set is S united with every id of B.
C22_FindNewWhaleTrades ==
    (mode = "scan" /\ out.op = "find_new_whale_trades") =>
        /\ out.new_whales = ExpectedWhales(fmt.trades, fmt.seen, fmt.cache,
                                           fmt.ans, threshold)
        /\ out.seen = fmt.seen \cup {fmt.trades[i].trade_id :
                                        i \in 1 .. Len(fmt.trades)}

\* a batch with the same new whale twice and a small trade: one pair comes
\* back and both ids are seen
C22_Witness ==
    /\ mode = "scan" /\ out.op = "find_new_whale_trades"
    /\ threshold = WHALE_THRESHOLD_DOLLARS
    /\ fmt.seen = {Some("t2")}
    /\ Len(fmt.trades) = MaxBatch
    /\ fmt.trades[1].trade_id = Some("t1")
    /\ fmt.trades[2].trade_id = Some("t1")
    /\ fmt.ans[1] = "ok"
    /\ Len(out.new_whales) = 1
    /\ out.seen = {Some("t1"), Some("t2")}

\* C23: a get_market_details call for a cached ticker returns the cached
\* details without a request and leaves the cache as it is; for a ticker not
\* cached it makes a request, stores and returns the market when the request
\* succeeds, and stores nothing and returns None when it fails (so the next
\* call for that ticker requests again); an entry once cached is never
\* changed or removed.
C23_CacheForever ==
    [][(mode = "cache" /\ fmt'.n = fmt.n + 1) =>
          LET t == fmt'.ticker
          IN  /\ \A k \in DOMAIN market_cache :
                     /\ k \in DOMAIN market_cache'
                     /\ market_cache'[k] = market_cache[k]
              /\ out'.requested <=> t \notin DOMAIN market_cache
              /\ t \in DOMAIN market_cache =>
                     /\ out'.market = Some(market_cache[t])
                     /\ market_cache' = market_cache
              /\ (t \notin DOMAIN market_cache /\ fmt'.resp = None) =>
                     /\ out'.market = None
                     /\ market_cache' = market_cache
              /\ (t \notin DOMAIN market_cache /\ fmt'.resp # None) =>
                     /\ out'.market = fmt'.resp
                     /\ DOMAIN market_cache' = DOMAIN market_cache \cup {t}
                     /\ market_cache'[t] = fmt'.resp[1]]_vars

\* a ticker cached under its first title is asked about again while the
\* exchange would now answer with another title: the cached one comes back
C23_Witness ==
    /\ mode = "cache" /\ out.op = "get_market_details"
    /\ fmt.ticker = Some("MKT-A")
    /\ fmt.resp = Some([ticker |-> Some("MKT-A"),
                        title |-> Some("Renamed title")])
    /\ ~out.requested
    /\ out.market = Some(MarketOf(Some("MKT-A")))
    /\ Some("MKT-B") \notin DOMAIN market_cache

\* C24: in streaming mode, when the callback starts on a trade whose id the
\* seen set holds, handle_trade returns at once: the seen set and the market
\* cache stay as they are, no whale is detected, no market request and no
\* publish is started, and no compaction runs.
C24_DuplicateChangesNothing ==
    [][(/\ mode = "stream" /\ cb.pc = "idle"
        /\ tasks # << >> /\ tasks' = Tail(tasks)
        /\ Head(tasks).trade_id \in seen_trade_ids) =>
          /\ seen_trade_ids' = seen_trade_ids
          /\ seen_fill' = seen_fill
          /\ market_cache' = market_cache
          /\ detections' = detections
          /\ publishes' = publishes
          /\ last_post' = last_post
          /\ dropped' = dropped
          /\ evicted' = evicted
          /\ cb' = Idle]_vars

\* a whale already published is delivered again and skipped
C24_Witness ==
    /\ mode = "stream"
    /\ Some("t2") \in skipped
    /\ Some("t2") \in seen_trade_ids
    /\ detections[Some("t2")] = 1
    /\ publishes[Some("t2")] = 1
    /\ cb = Idle /\ tasks = << >>

\* C25: a receive that times out is followed by a ping on the same
\* connection.  When the ping succeeds the connection and the back-off
\* delay are as before and a running loop is back at its receive.  When the
\* ping fails the connection is dropped, the delay is as before, and a
\* running loop is at a connect attempt, with no back-off sleep before it.
C25_PingOnTimeout ==
    /\ [][(mode = "stream" /\ lpc = "receiving" /\ lpc' = "pinging") =>
            /\ websocket' = websocket /\ websocket = "conn"
            /\ reconnect_delay' = reconnect_delay]_vars
    /\ [][(mode = "stream" /\ lpc = "pinging" /\ lpc' # "pinging"
           /\ conn_open /\ fault' = fault) =>
            /\ websocket' = websocket /\ conn_open' = conn_open
            /\ reconnect_delay' = reconnect_delay
            /\ loss' = loss
            /\ running => lpc' = "receiving"]_vars
    /\ [][(mode = "stream" /\ lpc = "pinging" /\ lpc' # "pinging"
           /\ ~conn_open /\ fault' = fault) =>
            /\ websocket' = "None"
            /\ reconnect_delay' = reconnect_delay
            /\ lpc' # "sleeping"
            /\ running => lpc' = "connecting"]_vars

\* the ping has failed and the loop is at its connect attempt
C25_Witness ==
    /\ mode = "stream" /\ running
    /\ loss = "ping" /\ fault = NoFault
    /\ lpc = "connecting" /\ websocket = "None"
    /\ fails = 0 /\ reconnect_delay = 1

\* C26: handling a message of type error or subscribed, of an unknown type
\* or without a type dispatches no callback and changes nothing: the
\* connection stays open, the back-off delay is as before, the seen set,
\* the cache and the publish counts are as before, and the loop is back at
\* its receive.  A message of type trade dispatches the callback exactly
\* once, for that message's trade.
C26_MessageDispatch ==
    (mode = "dispatch" /\ out.op = "handle_message") =>
        LET type == DictGet(fmt.data, "type", None)
            n    == Len(fmt.pending)
        IN  /\ type # Some("trade") => tasks = fmt.pending
            /\ type = Some("trade") =>
                  /\ Len(tasks) = n + 1
                  /\ SubSeq(tasks, 1, n) = fmt.pending
                  /\ tasks[n + 1].trade_id = fmt.data.msg[1].trade_id
            /\ websocket = "conn" /\ conn_open /\ running
            /\ reconnect_delay = 1
            /\ lpc = "receiving"
            /\ seen_trade_ids = {} /\ seen_fill = 0
            /\ market_cache = << >>
            /\ \A k \in Keys : publishes[k] = 0 /\ detections[k] = 0
            /\ exit_code = None

\* an error message was handled while a callback task was pending
C26_Witness ==
    /\ mode = "dispatch" /\ out.op = "handle_message"
    /\ DictGet(fmt.data, "type", None) = Some("error")
    /\ Len(fmt.pending) = 1
    /\ tasks = fmt.pending
    /\ lpc = "receiving"

\* the connection the client holds has been lost and the loop has not yet
\* acted on it
C27_Lost ==
    /\ mode = "stream"
    /\ websocket = "conn" /\ ~conn_open
    /\ lpc \in {"subscribing", "receiving", "pinging", "errsleep"}

\* close() was called or the process was interrupted
C27_Stopped == cpc # "off" \/ fault # NoFault

\* C27: while close() has not been called (and the process is not
\* interrupted) the listen loop does not end; whenever the connection is
\* lost the loop eventually is at a connect attempt; and if from some point
\* on no connect attempt fails and the peer closes no connection, the client
\* eventually is connected, subscribed and receiving.
C27_ReconnectsAfterLoss ==
    /\ [](mode = "stream" /\ ~C27_Stopped => lpc \notin {"done", "killed"})
    /\ C27_Lost ~> (lpc = "connecting" \/ C27_Stopped)
    /\ (<>[][fails' <= fails /\ (conn_open => conn_open')]_vars) =>
          (C27_Lost ~> (\/ conn_open /\ subscribed /\ lpc = "receiving"
                        \/ C27_Stopped))

\* the peer closed the connection and the loop is at its next connect
C27_Witness ==
    /\ mode = "stream" /\ running
    /\ loss = "closed" /\ ~C27_Stopped
    /\ lpc = "connecting" /\ websocket = "None"
    /\ connect_result = "True" /\ fails = 0

\* C28 as stated: of the callbacks dispatched for one trade id, at most one
\* passes the membership test and goes on to detection.
C28_AtMostOnePasses ==
    mode = "stream" => \A k \in Keys : detections[k] <= 1

\* C28: the test and the insert of handle_trade happen in one step of the
\* event loop: a callback that passes the test finds the id absent and
\* leaves it inserted; while it is in flight its id stays in the seen set
\* and no other callback starts; so of the callbacks for one id at most one
\* passes, unless a compaction removed the id from the seen set in between.
C28_AtomicCheckAndInsert ==
    /\ [](mode = "stream" =>
             /\ cb.pc # "idle" => cb.trade.trade_id \in seen_trade_ids
             /\ \A k \in Keys \ evicted : detections[k] <= 1)
    /\ [][(mode = "stream" /\ detections' # detections) =>
             /\ cb.pc = "idle" /\ tasks # << >>
             /\ Head(tasks).trade_id \notin seen_trade_ids
             /\ Head(tasks).trade_id \in seen_trade_ids'
             /\ detections' = Bump(detections, Head(tasks).trade_id)]_vars
    /\ [][(mode = "stream" /\ cb.pc # "idle") =>
             /\ tasks' = tasks \/ tasks' = << >>
             /\ cb' # Idle => seen_trade_ids' = seen_trade_ids]_vars

\* a callback is at its market request while a second callback for the same
\* id is pending; the first one passed the test
C28_Witness ==
    /\ mode = "stream"
    /\ cb.pc = "market" /\ cb.trade.trade_id = Some("t2")
    /\ tasks # << >> /\ Head(tasks).trade_id = Some("t2")
    /\ detections[Some("t2")] = 1

\* the sleep taken after the n-th failed connect attempt in a row
C29_SleepOf(n) ==
    IF n <= 7 THEN <<1, 2, 4, 8, 16, 32, 60>>[n] ELSE 60

\* C29: the back-off delay always is between 1 and 60; the sleep entered
\* after the n-th failed connect attempt in a row lasts 1, 2, 4, 8, 16, 32,
\* 60, 60, ... for n = 1, 2, ...; and the delay is doubled, up to 60, only
\* when the sleep is over.
C29_BackoffSleeps ==
    /\ [](mode = "stream" =>
             reconnect_delay >= 1 /\ reconnect_delay <= max_reconnect_delay)
    /\ [][(mode = "stream" /\ lpc # "sleeping" /\ lpc' = "sleeping") =>
             /\ fails' = fails + 1
             /\ reconnect_delay' = reconnect_delay
             /\ reconnect_delay' = C29_SleepOf(fails')]_vars
    /\ [][(mode = "stream" /\ lpc = "sleeping" /\ lpc' # "sleeping"
           /\ fault' = fault) =>
             reconnect_delay' = C29_SleepOf(fails + 1)]_vars

\* the seventh sleep in a row, the first of 60
C29_Witness ==
    /\ mode = "stream"
    /\ lpc = "sleeping"
    /\ fails = 7
    /\ reconnect_delay = 60
    /\ connect_result = "False"

\* the number of ids in the streaming seen set
C30_SeenSize == Cardinality(seen_trade_ids) + seen_fill

\* C30: in streaming mode the seen set never holds more than 10,001 ids, and
\* holds at most 10,000 ids whenever no handle_trade call is in progress,
\* whatever trade messages have come in, those whose handling raises after
\* the insert included.
C30_SeenSetBounded ==
    mode = "stream" =>
        /\ C30_SeenSize <= StreamSeenMax + 1
        /\ cb.pc = "idle" => C30_SeenSize <= StreamSeenMax

\* the key of the records without a trade_id on the path the bot runs
C31_Key == IF mode = "poll" THEN Some("") ELSE None

\* a poll cycle has scanned a batch holding a record without a trade_id
C31_Scanned ==
    /\ mode = "poll"
    /\ cycle_count' = cycle_count + 1
    /\ Some("") \in last_fetch'

\* the event loop has started the callback of a frame without a trade_id
C31_Started ==
    /\ mode = "stream"
    /\ cb.pc = "idle" /\ tasks # << >>
    /\ tasks' = Tail(tasks)
    /\ UNCHANGED <<sysVars, connVars>>
    /\ "trade_id" \in DOMAIN Head(tasks) /\ Head(tasks).trade_id = None

\* the record handled by the step was dropped as a duplicate
C31_DroppedAsDuplicate ==
    /\ C31_Key \in skipped'
    /\ detections'[C31_Key] = detections[C31_Key]
    /\ publishes' = publishes
    /\ (C31_Key \in dropped') = (C31_Key \in dropped)
    /\ mode = "poll" =>
          /\ C31_Key \notin last_result'
          /\ \A i \in 1 .. Len(whale_trades') :
                whale_trades'[i][1].trade_id # C31_Key
    /\ mode = "stream" =>
          /\ cb' = Idle
          /\ seen_trade_ids' = seen_trade_ids /\ seen_fill' = seen_fill
          /\ market_cache' = market_cache

\* C31: the records without a trade_id share one dedup key, '' in polling
\* mode and None in streaming mode: the first one handled puts the key into
\* the seen set, and while the key is in the seen set every further record
\* without a trade_id, whale or not, is dropped as a duplicate: no detection,
\* no market request, no publish.
C31_SharedDedupKey ==
    /\ [](mode \in {"poll", "stream"} =>
             seen_trade_ids \subseteq Keys \cup {C31_Key})
    /\ [][(C31_Scanned \/ C31_Started) =>
             IF C31_Key \in seen_trade_ids
             THEN C31_DroppedAsDuplicate
             ELSE /\ C31_Key \in seen_trade_ids' \cup evicted'
                  /\ detections'[C31_Key] <= detections[C31_Key] + 1]_vars

\* streaming: the feed has delivered its whale without a trade_id and every
\* callback has run, yet no whale was detected under None: the small trade
\* without a trade_id came first and the whale was dropped as its duplicate
C31_Witness ==
    /\ mode = "stream"
    /\ anon_left["anon_whale"] < MaxAnon
    /\ running /\ lpc \notin {"done", "killed"} /\ fault = NoFault
    /\ cb.pc = "idle" /\ tasks = << >>
    /\ None \in seen_trade_ids
    /\ None \in skipped
    /\ detections[None] = 0 /\ publishes[None] = 0
====
